---- MODULE Spec2Model ----
(***************************************************************************)
(* A model of the request-security pipeline of the cancellation flow:     *)
(* the in-memory RateLimiter (src/lib/rate-limiter.ts), the CSRF           *)
(* protection (src/lib/csrf-protection.ts), the InputSanitizer             *)
(* (src/lib/input-sanitizer.ts), the two versions of the cancellation      *)
(* route (src/app/api/cancellation/route.ts) and the A/B assignment        *)
(* (src/lib/ab-testing.ts).                                                *)
(*                                                                         *)
(* Strings are TLA+ strings (sequences of characters); time is in          *)
(* milliseconds counted from the start of the process.                     *)
(***************************************************************************)
EXTENDS Integers, Sequences, FiniteSets, TLC

VARIABLES
    focus,      \* the RateLimiter instance a run of SpecRL exercises
    now,        \* Date.now(), in ms
    advances,   \* how often the clock has moved (bounded by MaxAdvances)
    store,      \* store[l][k]: the entry of key k in limiter l, or NoEntry
    last,       \* the last limiter operation, the entry it found and what it returned
    winStart,   \* history: winStart[l][k], when k's current window began (-1: none)
    calls,      \* history: calls[l][k], check(k) calls made in that window
    unswept,    \* where unswept.tracked: the stores of limiters whose check()
                \* does not call cleanup(), given the same calls, and what
                \* their last check returned
    csrf,       \* the last call of the CSRF middleware or of verifyToken
    resp,       \* the last request to the cancellation route and its response
    ab,         \* the A/B assignment: environment, localStorage, history of calls
    gate,       \* the last request to the global middleware and its response
    price,      \* an input of calculateDownsellPrice and, once computed, its result
    san,        \* a call of an InputSanitizer function: its argument and, once
                \* it has run, what it returned
    proto,      \* the count property of the values the store object inherits
                \* from Object.prototype
    session,    \* a browser: the csrf-token cookie it stores, the tokens its pages
                \* got from earlier GETs, and the token pairs that have passed
    race        \* requests of one client in flight inside check(), where a run
                \* lets one request's steps fall between another's

limiterVars == <<now, advances, store, last, winStart, calls, unswept, proto>>

vars == <<focus, session, now, advances, store, last, winStart, calls, unswept, proto, csrf, resp, ab, gate, price, san, race>>

(***************************************************************************)
(* Bounds of the model.                                                    *)
(***************************************************************************)
\* the clock moves at most this many times in a run
MaxAdvances == 2
\* limiters allowing more requests than this are exercised with one key
TwoKeyLimit == 10
\* a key makes at most this many calls beyond the limit in one window
MaxDenied == 2
\* getOrAssignVariant is called at most this often for one user
MaxCalls == 3
\* where all four limiters run side by side, the calls counted in the
\* current windows of all keys are at most this many
MaxChecks == 6
\* requests counted by the general limiter where the client identity varies
MaxIdentified == 4
\* the largest currentPrice, in cents, given to calculateDownsellPrice
MaxPrice == 2600
\* clock advances in a behaviour of the cancellation route
RouteAdvances == 1

(***************************************************************************)
(* RateLimiter  (src/lib/rate-limiter.ts)                                  *)
(***************************************************************************)
\* the pre-configured limiters
rateLimiters ==
    [ api          |-> [windowMs |-> 15 * 60 * 1000, maxRequests |-> 100],
      auth         |-> [windowMs |-> 15 * 60 * 1000, maxRequests |-> 5],
      cancellation |-> [windowMs |-> 60 * 60 * 1000, maxRequests |-> 10],
      feedback     |-> [windowMs |-> 60 * 60 * 1000, maxRequests |-> 5] ]

LimiterNames == DOMAIN rateLimiters

\* client identities used as keys
ClientKeys == {"10.0.0.1", "10.0.0.2"}

\* the keys a store can hold in the model: the client keys and the literal
\* getClientIP falls back on
StoreKeys == ClientKeys \cup {"unknown"}

KeysFor(l) ==
    IF rateLimiters[l].maxRequests > TwoKeyLimit THEN {"10.0.0.1"} ELSE ClientKeys

\* store[key] is undefined
NoEntry == [count |-> 0, resetTime |-> -1]

cleanup_strictlyBefore(st, t) ==
    [k \in DOMAIN st |->
        IF st[k] # NoEntry /\ st[k].resetTime < t THEN NoEntry ELSE st[k]]

\* cleanup(): delete every entry whose resetTime <= now
cleanup(st, t) ==
    [k \in DOMAIN st |->
        IF st[k] # NoEntry /\ st[k].resetTime <= t THEN NoEntry ELSE st[k]]

\* the entry check() stores for a key it does not know
FirstEntry_noWindow(config, t) == [count |-> 1, resetTime |-> t]

FirstEntry_countZero(config, t) == [count |-> 0, resetTime |-> t + config.windowMs]

FirstEntry(config, t) == [count |-> 1, resetTime |-> t + config.windowMs]

\* "Check if limit exceeded"
LimitExceeded_offByOne(entry, config) == entry.count > config.maxRequests

LimitExceeded(entry, config) == entry.count >= config.maxRequests

checkBody_extendWhenDenied(config, st, key, t) ==
    IF st[key] = NoEntry THEN
        LET e == FirstEntry(config, t) IN
        [ store  |-> [st EXCEPT ![key] = e],
          result |-> [allowed |-> TRUE, remaining |-> config.maxRequests - 1,
                      resetTime |-> e.resetTime] ]
    ELSE IF st[key].resetTime <= t THEN
        LET e == [count |-> 1, resetTime |-> t + config.windowMs] IN
        [ store  |-> [st EXCEPT ![key] = e],
          result |-> [allowed |-> TRUE, remaining |-> config.maxRequests - 1,
                      resetTime |-> e.resetTime] ]
    ELSE IF LimitExceeded(st[key], config) THEN
        LET e == [st[key] EXCEPT !.resetTime = t + config.windowMs] IN
        [ store  |-> [st EXCEPT ![key] = e],
          result |-> [allowed |-> FALSE, remaining |-> 0,
                      resetTime |-> e.resetTime] ]
    ELSE
        LET e == [st[key] EXCEPT !.count = @ + 1] IN
        [ store  |-> [st EXCEPT ![key] = e],
          result |-> [allowed |-> TRUE, remaining |-> config.maxRequests - e.count,
                      resetTime |-> e.resetTime] ]

checkBody_noExpiryTest(config, st, key, t) ==
    IF st[key] = NoEntry THEN
        LET e == FirstEntry(config, t) IN
        [ store  |-> [st EXCEPT ![key] = e],
          result |-> [allowed |-> TRUE, remaining |-> config.maxRequests - 1,
                      resetTime |-> e.resetTime] ]
    ELSE IF LimitExceeded(st[key], config) THEN
        [ store  |-> st,
          result |-> [allowed |-> FALSE, remaining |-> 0,
                      resetTime |-> st[key].resetTime] ]
    ELSE
        LET e == [st[key] EXCEPT !.count = @ + 1] IN
        [ store  |-> [st EXCEPT ![key] = e],
          result |-> [allowed |-> TRUE, remaining |-> config.maxRequests - e.count,
                      resetTime |-> e.resetTime] ]

\* check(key) after its call of cleanup(): st is the store, t the value of
\* Date.now() read by check. Yields the new store and the returned object.
checkBody(config, st, key, t) ==
    IF st[key] = NoEntry THEN
        LET e == FirstEntry(config, t) IN
        [ store  |-> [st EXCEPT ![key] = e],
          result |-> [allowed |-> TRUE, remaining |-> config.maxRequests - 1,
                      resetTime |-> e.resetTime] ]
    ELSE IF st[key].resetTime <= t THEN
        \* "Reset if window has passed"
        LET e == [count |-> 1, resetTime |-> t + config.windowMs] IN
        [ store  |-> [st EXCEPT ![key] = e],
          result |-> [allowed |-> TRUE, remaining |-> config.maxRequests - 1,
                      resetTime |-> e.resetTime] ]
    ELSE IF LimitExceeded(st[key], config) THEN
        [ store  |-> st,
          result |-> [allowed |-> FALSE, remaining |-> 0,
                      resetTime |-> st[key].resetTime] ]
    ELSE
        LET e == [st[key] EXCEPT !.count = @ + 1] IN
        [ store  |-> [st EXCEPT ![key] = e],
          result |-> [allowed |-> TRUE, remaining |-> config.maxRequests - e.count,
                      resetTime |-> e.resetTime] ]

\* the clock may move between the two reads of Date.now() in one check()
Drifts == {0, 1}

NoResult == [allowed |-> FALSE, remaining |-> -1, resetTime |-> -1, count |-> -1]

Last(op, l, k, t, prior, r) ==
    [op |-> op, lim |-> l, key |-> k, at |-> t, prior |-> prior, found |-> r # NoResult,
     allowed |-> r.allowed, remaining |-> r.remaining,
     resetTime |-> r.resetTime, count |-> r.count]

\* history of the windows, kept beside the store: a window of key k begins with
\* the first check(k) made when k has no window or its window has elapsed, and
\* lasts windowMs
InWindow(l, k, t) ==
    winStart[l][k] # -1 /\ t < winStart[l][k] + rateLimiters[l].windowMs

Observe(l, k, t) ==
    LET fresh == ~InWindow(l, k, t)
    IN  /\ winStart' = [winStart EXCEPT ![l][k] = IF fresh THEN t ELSE @]
        /\ calls' = [calls EXCEPT ![l][k] = IF fresh THEN 1 ELSE @ + 1]

\* the same call of check(key), at the same time, on the limiter that skips
\* cleanup()
CheckUnswept(l, k, t) ==
    LET c == checkBody(rateLimiters[l], unswept.store[l], k, t)
    IN  IF unswept.tracked
        THEN [unswept EXCEPT !.store[l] = c.store, !.result = c.result]
        ELSE unswept

\* One call of limiter.check(key): cleanup() reads the clock, check reads it
\* again d ms later, and the caller reads it once more e ms after that.
LimiterCall_oneStore(l, k, d, e) ==
    /\ d + e > 0 => advances + (IF d > 0 THEN 1 ELSE 0) + (IF e > 0 THEN 1 ELSE 0) <= MaxAdvances
    /\ InWindow(l, k, now + d) =>
           calls[l][k] < rateLimiters[l].maxRequests + MaxDenied
    /\ LET t == now + d
           c == checkBody(rateLimiters[l], cleanup(store[l], now), k, t)
       IN  /\ store' = [x \in LimiterNames |-> c.store]
           /\ now' = t + e
           /\ advances' = advances + (IF d > 0 THEN 1 ELSE 0) + (IF e > 0 THEN 1 ELSE 0)
           /\ last' = Last("check", l, k, t, store[l][k],
                           [allowed |-> c.result.allowed,
                            remaining |-> c.result.remaining,
                            resetTime |-> c.result.resetTime,
                            count |-> c.store[k].count])
           /\ Observe(l, k, t)
           /\ unswept' = CheckUnswept(l, k, t)
           /\ proto' = proto

LimiterCall(l, k, d, e) ==
    /\ d + e > 0 => advances + (IF d > 0 THEN 1 ELSE 0) + (IF e > 0 THEN 1 ELSE 0) <= MaxAdvances
    /\ InWindow(l, k, now + d) =>
           calls[l][k] < rateLimiters[l].maxRequests + MaxDenied
    /\ LET t == now + d
           c == checkBody(rateLimiters[l], cleanup(store[l], now), k, t)
       IN  /\ store' = [store EXCEPT ![l] = c.store]
           /\ now' = t + e
           /\ advances' = advances + (IF d > 0 THEN 1 ELSE 0) + (IF e > 0 THEN 1 ELSE 0)
           /\ last' = Last("check", l, k, t, store[l][k],
                           [allowed |-> c.result.allowed,
                            remaining |-> c.result.remaining,
                            resetTime |-> c.result.resetTime,
                            count |-> c.store[k].count])
           /\ Observe(l, k, t)
           /\ unswept' = CheckUnswept(l, k, t)
           /\ proto' = proto

\* limiter.check(key)
Check(l, k) ==
    /\ \E d \in Drifts : LimiterCall(l, k, d, 0)
    /\ UNCHANGED <<focus, session, csrf, resp, ab, gate, price, race, san>>

Reset_allKeys(l, k) ==
    /\ store' = [store EXCEPT ![l] = [x \in StoreKeys |-> NoEntry]]
    /\ last' = Last("reset", l, k, now, store[l][k], NoResult)
    /\ winStart' = [winStart EXCEPT ![l][k] = -1]
    /\ calls' = [calls EXCEPT ![l][k] = 0]
    /\ unswept' = IF unswept.tracked
                  THEN [unswept EXCEPT !.store[l][k] = NoEntry]
                  ELSE unswept
    /\ UNCHANGED <<focus, session, now, advances, proto, csrf, resp, ab, gate, price, race, san>>

\* limiter.reset(key)
Reset(l, k) ==
    /\ store' = [store EXCEPT ![l][k] = NoEntry]
    /\ last' = Last("reset", l, k, now, store[l][k], NoResult)
    /\ winStart' = [winStart EXCEPT ![l][k] = -1]
    /\ calls' = [calls EXCEPT ![l][k] = 0]
    /\ unswept' = IF unswept.tracked
                  THEN [unswept EXCEPT !.store[l][k] = NoEntry]
                  ELSE unswept
    /\ UNCHANGED <<focus, session, now, advances, proto, csrf, resp, ab, gate, price, race, san>>

\* limiter.getStatus(key)
GetStatus(l, k) ==
    LET st == cleanup(store[l], now) IN
    /\ store' = [store EXCEPT ![l] = st]
    /\ last' = IF st[k] = NoEntry
               THEN Last("getStatus", l, k, now, store[l][k], NoResult)
               ELSE Last("getStatus", l, k, now, store[l][k],
                         [allowed |-> FALSE,
                          remaining |-> IF rateLimiters[l].maxRequests - st[k].count > 0
                                        THEN rateLimiters[l].maxRequests - st[k].count
                                        ELSE 0,
                          resetTime |-> st[k].resetTime,
                          count |-> st[k].count])
    /\ UNCHANGED <<focus, session, now, advances, winStart, calls, unswept, proto, csrf, resp, ab, gate, price, race, san>>

\* how far the clock moves between two operations on limiter l
Deltas(l) == {rateLimiters[l].windowMs - 1, rateLimiters[l].windowMs}

\* time passes
Advance(l) ==
    \E d \in Deltas(l) :
        /\ advances < MaxAdvances
        /\ now' = now + d
        /\ advances' = advances + 1
        /\ last' = Last("advance", l, "", now + d, NoEntry, NoResult)
        /\ UNCHANGED <<focus, session, store, winStart, calls, unswept, proto, csrf, resp, ab, gate, price, race, san>>

InitLimiters ==
    /\ now = 0
    /\ advances = 0
    /\ store = [l \in LimiterNames |-> [k \in StoreKeys |-> NoEntry]]
    /\ last = Last("none", "", "", 0, NoEntry, NoResult)
    /\ winStart = [l \in LimiterNames |-> [k \in StoreKeys |-> -1]]
    /\ calls = [l \in LimiterNames |-> [k \in StoreKeys |-> 0]]

Unswept(tracked) ==
    [tracked |-> tracked,
     store |-> [l \in LimiterNames |-> [k \in StoreKeys |-> NoEntry]],
     result |-> [allowed |-> FALSE, remaining |-> -1, resetTime |-> -1]]

InitUnswept == unswept = Unswept(FALSE)

(***************************************************************************)
(* Strings.                                                                *)
(***************************************************************************)
\* s.substring(i - 1, j): the characters i..j of s that exist
Sub(s, i, j) ==
    IF i > Len(s) \/ j < i THEN ""
    ELSE SubSeq(s, i, IF j > Len(s) THEN Len(s) ELSE j)

Ch(s, i) == Sub(s, i, i)

From(s, i) == Sub(s, i, Len(s))

UpperLetters == "ABCDEFGHIJKLMNOPQRSTUVWXYZ"
LowerLetters == "abcdefghijklmnopqrstuvwxyz"
Digits == "0123456789"

CharsOf(s) == {Ch(s, i) : i \in 1..Len(s)}

IsUpper(c) == c \in CharsOf(UpperLetters)
IsLetter(c) == c \in CharsOf(UpperLetters) \cup CharsOf(LowerLetters)
IsDigit(c) == c \in CharsOf(Digits)
\* \w
IsWord(c) == IsLetter(c) \/ IsDigit(c) \/ c = "_"
\* \s
IsSpace(c) == c \in {" ", "\t", "\n", "\r"}

LowerCh(c) ==
    IF IsUpper(c)
    THEN Ch(LowerLetters, CHOOSE i \in 1..26 : Ch(UpperLetters, i) = c)
    ELSE c

\* s.toLowerCase(), character by character (by halves, to keep the depth of
\* the evaluation logarithmic)
RECURSIVE toLowerCase(_)
toLowerCase(s) ==
    IF s = "" THEN ""
    ELSE IF Len(s) = 1 THEN LowerCh(s)
    ELSE toLowerCase(Sub(s, 1, Len(s) \div 2)) \o toLowerCase(From(s, Len(s) \div 2 + 1))

\* s.includes(p)
includes(s, p) ==
    \E i \in 1..(Len(s) - Len(p) + 1) : Sub(s, i, i + Len(p) - 1) = p

\* /p/i.test(s), p a literal in lower case
includesCI(s, p) == includes(toLowerCase(s), p)

\* the index of the first occurrence of p in s at or after i, 0 if there is none
indexOfFrom(s, p, i) ==
    IF \E j \in i..(Len(s) - Len(p) + 1) : Sub(s, j, j + Len(p) - 1) = p
    THEN CHOOSE j \in i..(Len(s) - Len(p) + 1) :
            /\ Sub(s, j, j + Len(p) - 1) = p
            /\ \A h \in i..(j - 1) : Sub(s, h, h + Len(p) - 1) # p
    ELSE 0

\* s.replace(/p/gi, ''), p a literal in lower case: the text before the
\* leftmost match is kept and the scan resumes after the match
RECURSIVE removeAllCI(_, _)
removeAllCI(s, p) ==
    LET i == indexOfFrom(toLowerCase(s), p, 1) IN
    IF i = 0 THEN s
    ELSE Sub(s, 1, i - 1) \o removeAllCI(From(s, i + Len(p)), p)

\* the length of the longest prefix of s made of \w characters
RECURSIVE wordRun(_)
wordRun(s) == IF s # "" /\ IsWord(Ch(s, 1)) THEN 1 + wordRun(From(s, 2)) ELSE 0

\* the length of the longest prefix of s made of \s characters
RECURSIVE spaceRun(_)
spaceRun(s) == IF s # "" /\ IsSpace(Ch(s, 1)) THEN 1 + spaceRun(From(s, 2)) ELSE 0

\* the length of the match of /on\w+\s*=/i at the start of s, 0 if there is none
onHandlerMatch(s) ==
    IF Len(s) >= 4 /\ toLowerCase(Sub(s, 1, 2)) = "on"
    THEN LET w  == wordRun(From(s, 3))
             sp == spaceRun(From(s, 3 + w))
         IN  IF w >= 1 /\ 3 + w + sp <= Len(s) /\ Ch(s, 3 + w + sp) = "="
             THEN 2 + w + sp + 1 ELSE 0
    ELSE 0

\* /on\w+\s*=/i.test(s)
hasOnHandler(s) == \E i \in 1..Len(s) : onHandlerMatch(From(s, i)) > 0

\* s.replace(/on\w+\s*=/gi, ''): the text before the leftmost match is kept
\* and the scan resumes after the match
RECURSIVE removeOnHandlers(_)
removeOnHandlers(s) ==
    IF ~hasOnHandler(s) THEN s
    ELSE LET i == CHOOSE i \in 1..Len(s) :
                    /\ onHandlerMatch(From(s, i)) > 0
                    /\ \A h \in 1..(i - 1) : onHandlerMatch(From(s, h)) = 0
         IN  Sub(s, 1, i - 1)
                 \o removeOnHandlers(From(s, i + onHandlerMatch(From(s, i))))

\* s.trim()
RECURSIVE trimStart(_)
trimStart(s) == IF s # "" /\ IsSpace(Ch(s, 1)) THEN trimStart(From(s, 2)) ELSE s

RECURSIVE trimEnd(_)
trimEnd(s) ==
    IF s # "" /\ IsSpace(Ch(s, Len(s))) THEN trimEnd(Sub(s, 1, Len(s) - 1)) ELSE s

trim(s) == trimEnd(trimStart(s))

(***************************************************************************)
(* JavaScript values: a string, a number (amounts, kept in hundredths),    *)
(* null or undefined.                                                      *)
(***************************************************************************)
Undefined == [t |-> "undefined"]
Null == [t |-> "null"]
Str(s) == [t |-> "string", s |-> s]
Num(n) == [t |-> "number", n |-> n]

\* !v
Falsy(v) ==
    \/ v.t \in {"undefined", "null"}
    \/ v.t = "string" /\ v.s = ""
    \/ v.t = "number" /\ v.n = 0

(***************************************************************************)
(* InputSanitizer  (src/lib/input-sanitizer.ts)                            *)
(***************************************************************************)
\* elements DOMPurify removes together with their content
ForbidContents == {"script", "style", "iframe"}

\* the length of the tag name at the start of s
RECURSIVE tagNameLen(_)
tagNameLen(s) ==
    IF s = "" \/ IsSpace(Ch(s, 1)) \/ Ch(s, 1) \in {"/", ">"} THEN 0
    ELSE 1 + tagNameLen(From(s, 2))

\* s after the first ">" at or after i; "" if there is none
afterGt(s, i) ==
    LET gt == indexOfFrom(s, ">", i) IN IF gt = 0 THEN "" ELSE From(s, gt + 1)

\* DOMPurify.sanitize(s, sanitizeOptions) for a string holding "<": every tag is
\* dropped and its content kept (ALLOWED_TAGS: [], KEEP_CONTENT), but script,
\* style and iframe go with their content; the remaining text is serialized,
\* so "&", "<" and ">" in it become entities. Markup without quoted
\* attribute values, comments or entities is covered.
RECURSIVE purifyScan(_)
purifyScan(s) ==
    IF s = "" THEN ""
    ELSE IF Ch(s, 1) = "<" THEN
        IF Len(s) >= 2 /\ IsLetter(Ch(s, 2)) THEN
            LET name == toLowerCase(Sub(s, 2, 1 + tagNameLen(From(s, 2))))
                body == afterGt(s, 2)
            IN  IF name \in ForbidContents
                THEN LET close == indexOfFrom(toLowerCase(body), "</" \o name, 1)
                     IN  IF close = 0 THEN "" ELSE purifyScan(afterGt(body, close))
                ELSE purifyScan(body)
        ELSE IF Len(s) >= 2 /\ Ch(s, 2) \in {"/", "!", "?"} THEN
            purifyScan(afterGt(s, 2))
        ELSE "&lt;" \o purifyScan(From(s, 2))
    ELSE IF Ch(s, 1) = ">" THEN "&gt;" \o purifyScan(From(s, 2))
    ELSE IF Ch(s, 1) = "&" THEN "&amp;" \o purifyScan(From(s, 2))
    ELSE Ch(s, 1) \o purifyScan(From(s, 2))

\* DOMPurify.sanitize(input, sanitizeOptions): a string without "<" is returned
\* as it is
purify(s) == IF includes(s, "<") THEN purifyScan(s) ELSE s

\* sanitizeText(input)
sanitizeText(input) ==
    IF input.t # "string" THEN ""
    ELSE trim(removeOnHandlers(
              removeAllCI(removeAllCI(removeAllCI(purify(input.s),
                  "javascript:"), "vbscript:"), "data:")))

\* validationPatterns.userId: /^[a-zA-Z0-9\-_]{1,50}$/
UserIdCh(c) == IsLetter(c) \/ IsDigit(c) \/ c \in {"-", "_"}
userIdPattern(s) ==
    Len(s) >= 1 /\ Len(s) <= 50 /\ \A i \in 1..Len(s) : UserIdCh(Ch(s, i))

\* validationPatterns.reason: /^[a-zA-Z0-9\s\-_]+$/
ReasonCh(c) == IsLetter(c) \/ IsDigit(c) \/ IsSpace(c) \/ c \in {"-", "_"}
reasonPattern(s) == Len(s) >= 1 /\ \A i \in 1..Len(s) : ReasonCh(Ch(s, i))

\* validationPatterns.amount: /^\d+(\.\d{1,2})?$/
amountPattern(s) ==
    LET dot == indexOfFrom(s, ".", 1)
        int == IF dot = 0 THEN s ELSE Sub(s, 1, dot - 1)
        frac == IF dot = 0 THEN "" ELSE From(s, dot + 1)
    IN  /\ Len(int) >= 1 /\ \A i \in 1..Len(int) : IsDigit(Ch(int, i))
        /\ dot # 0 => /\ Len(frac) \in {1, 2}
                     /\ \A i \in 1..Len(frac) : IsDigit(Ch(frac, i))

DigitVal(c) == (CHOOSE i \in 1..10 : Ch(Digits, i) = c) - 1

RECURSIVE parseDigits(_)
parseDigits(s) ==
    IF s = "" THEN 0
    ELSE 10 * parseDigits(Sub(s, 1, Len(s) - 1)) + DigitVal(Ch(s, Len(s)))

\* parseFloat(s) of a string matching the amount pattern, in hundredths
parseFloat100(s) ==
    LET dot == indexOfFrom(s, ".", 1)
        int == IF dot = 0 THEN s ELSE Sub(s, 1, dot - 1)
        frac == IF dot = 0 THEN "" ELSE From(s, dot + 1)
    IN  100 * parseDigits(int)
        + (IF Len(frac) = 1 THEN 10 * parseDigits(frac) ELSE parseDigits(frac))

\* sanitizeAmount(input)
sanitizeAmount(input) ==
    LET sanitized == sanitizeText(input) IN
    IF ~amountPattern(sanitized) THEN Null
    ELSE IF parseFloat100(sanitized) < 0 THEN Null
    ELSE Num(parseFloat100(sanitized))

\* sanitizeUserId(input)
sanitizeUserId(input) ==
    LET sanitized == sanitizeText(input) IN
    IF ~userIdPattern(sanitized) THEN Null ELSE Str(sanitized)

sanitizeFeedback_exclusiveMax(input, minLength, maxLength) ==
    LET sanitized == sanitizeText(input) IN
    IF Len(sanitized) < minLength \/ Len(sanitized) >= maxLength THEN Null
    ELSE IF \/ includes(sanitized, "<script")
            \/ includes(sanitized, "javascript:")
            \/ includes(sanitized, "data:")
         THEN Null
    ELSE Str(sanitized)

\* sanitizeFeedback(input, minLength, maxLength)
sanitizeFeedback(input, minLength, maxLength) ==
    LET sanitized == sanitizeText(input) IN
    IF Len(sanitized) < minLength \/ Len(sanitized) > maxLength THEN Null
    ELSE IF \/ includes(sanitized, "<script")
            \/ includes(sanitized, "javascript:")
            \/ includes(sanitized, "data:")
         THEN Null
    ELSE Str(sanitized)

\* sanitizeReason(input)
sanitizeReason(input) ==
    LET sanitized == sanitizeText(input) IN
    IF ~reasonPattern(sanitized) THEN Null ELSE Str(sanitized)

\* /<tag\b[^<]*(?:(?!<\/tag>)<[^<]*)*<\/tag>/gi.test(s): "<tag" at a word
\* boundary with "</tag>" somewhere after it
blockPattern(s, tag) ==
    LET low == toLowerCase(s)
        open == "<" \o tag
        close == "</" \o tag \o ">"
    IN  \E i \in 1..Len(low) :
            /\ Sub(low, i, i + Len(open) - 1) = open
            /\ i + Len(open) > Len(low) \/ ~IsWord(Ch(low, i + Len(open)))
            /\ indexOfFrom(low, close, i + Len(open)) # 0

\* isMalicious(input)
isMalicious(s) ==
    \/ blockPattern(s, "script")
    \/ includesCI(s, "javascript:")
    \/ includesCI(s, "vbscript:")
    \/ includesCI(s, "data:")
    \/ hasOnHandler(s)
    \/ blockPattern(s, "iframe")
    \/ blockPattern(s, "object")
    \/ blockPattern(s, "embed")

\* cancellationSchema
cancellationSchema ==
    [ userId |-> "userId", variant |-> "text", reason |-> "reason",
      amount |-> "amount", feedback |-> "feedback" ]

\* obj[key]
Get(obj, key) == IF key \in DOMAIN obj THEN obj[key] ELSE Undefined

sanitizeField_reasonAsText(type, value) ==
    CASE type \in {"text", "reason"} -> Str(sanitizeText(value))
      [] type = "amount"   -> sanitizeAmount(value)
      [] type = "userId"   -> sanitizeUserId(value)
      [] type = "feedback" -> sanitizeFeedback(value, 25, 1000)

\* the switch of sanitizeObject
sanitizeField(type, value) ==
    CASE type = "text"     -> Str(sanitizeText(value))
      [] type = "amount"   -> sanitizeAmount(value)
      [] type = "userId"   -> sanitizeUserId(value)
      [] type = "feedback" -> sanitizeFeedback(value, 25, 1000)
      [] type = "reason"   -> sanitizeReason(value)

\* the TypeError a property read of null or undefined throws
TypeError == [t |-> "thrown"]

\* sanitizeObject(obj, schema); a key left out of the result is Undefined.
\* obj[key] throws when obj is null or undefined.
sanitizeObject(obj, schema) ==
    IF obj \in {Undefined, Null} THEN TypeError
    ELSE [key \in DOMAIN schema |->
            IF Get(obj, key) # Undefined /\ Get(obj, key) # Null
            THEN sanitizeField(schema[key], Get(obj, key))
            ELSE Undefined]

\* String(v), as pattern.test(v) converts its argument
String(v) ==
    CASE v.t = "string"    -> v.s
      [] v.t = "null"      -> "null"
      [] v.t = "undefined" -> "undefined"
      [] v.t = "number"    -> "5"

\* a call of a function of InputSanitizer
SanitizerFunctions ==
    {"sanitizeText", "sanitizeAmount", "sanitizeUserId", "sanitizeFeedback",
     "sanitizeReason", "isMalicious", "sanitizeObject"}

sanitizerResult(fn, input) ==
    CASE fn = "sanitizeText"     -> Str(sanitizeText(input))
      [] fn = "sanitizeAmount"   -> sanitizeAmount(input)
      [] fn = "sanitizeUserId"   -> sanitizeUserId(input)
      [] fn = "sanitizeFeedback" -> sanitizeFeedback(input, 25, 1000)
      [] fn = "sanitizeReason"   -> sanitizeReason(input)
      [] fn = "isMalicious"      -> [t |-> "boolean", b |-> isMalicious(String(input))]
      [] fn = "sanitizeObject"   -> sanitizeObject(input, cancellationSchema)

SanitizerCall(fn, input) ==
    [fn |-> fn, input |-> input, done |-> FALSE, output |-> Undefined]

\* the function is called with the input
Sanitize ==
    /\ ~san.done
    /\ san' = [san EXCEPT !.done = TRUE, !.output = sanitizerResult(san.fn, san.input)]
    /\ UNCHANGED <<focus, session, limiterVars, csrf, resp, ab, gate, price, race>>

InitSan == san = SanitizerCall("sanitizeText", Str(""))

(***************************************************************************)
(* Requests and responses.                                                 *)
(* A request: method; the headers x-forwarded-for, x-real-ip and           *)
(* x-csrf-token; req.ip; the csrf_token form field and query parameter;    *)
(* the csrf-token cookie; bodyKind ("json", "form", or "bad" for a body    *)
(* that is no JSON) and, for a JSON body, the object body.                 *)
(* A response: status and JSON body (error, message, success, data,        *)
(* retryAfter), the X-RateLimit-* headers and the csrf-token cookie set    *)
(* on it; handled, sanitized and persisted count the calls of the wrapped  *)
(* handler, of sanitizeObject and of handleCancellationCompletion made     *)
(* while the request was served.                                           *)
(***************************************************************************)
NoData == [userId |-> Undefined, variant |-> Undefined, reason |-> Undefined]
\* the headers X-RateLimit-Limit, X-RateLimit-Remaining, X-RateLimit-Reset (the
\* time it names, in ms) and Retry-After; -1: the header is not set
NoHeaders == [limit |-> -1, remaining |-> -1, reset |-> -1, retryAfter |-> -1]

\* the three X-RateLimit-* headers set from the result of a check
RateLimitHeaders(limit, result) ==
    [limit |-> limit, remaining |-> result.remaining, reset |-> result.resetTime,
     retryAfter |-> -1]

Response(status, error, message) ==
    [ status |-> status, error |-> error, message |-> message, success |-> FALSE,
      data |-> NoData, csrfToken |-> "", retryAfter |-> -1, headers |-> NoHeaders,
      cookie |-> "",
      handled |-> 0, sanitized |-> 0, persisted |-> 0 ]

(***************************************************************************)
(* CSRFProtection  (src/lib/csrf-protection.ts)                            *)
(***************************************************************************)
\* v || ''
OrEmpty(v) == IF Falsy(v) THEN "" ELSE v.s

\* the loop of timingSafeEqual: result |= a.charCodeAt(i) ^ b.charCodeAt(i) for
\* i < n; the value is 0, or 1 standing for any value other than 0
RECURSIVE xorFold(_, _, _)
xorFold(a, b, n) ==
    IF n = 0 THEN 0
    ELSE LET acc == xorFold(a, b, n - 1)
             x   == IF Ch(a, n) = Ch(b, n) THEN 0 ELSE 1
         IN  IF acc = 0 /\ x = 0 THEN 0 ELSE 1

timingSafeEqual_skipLast(a, b) ==
    IF Len(a) # Len(b) THEN FALSE ELSE xorFold(a, b, Len(a) - 1) = 0

\* timingSafeEqual(a, b)
timingSafeEqual(a, b) ==
    IF Len(a) # Len(b) THEN FALSE ELSE xorFold(a, b, Len(a)) = 0

\* the number of passes through the body of the loop of timingSafeEqual for
\* i < n: the loop has no break and no early return
RECURSIVE iterations(_, _, _)
iterations(a, b, n) ==
    IF n = 0 THEN 0 ELSE iterations(a, b, n - 1) + 1

comparisons_untilMismatch(a, b) ==
    LET differ == { i \in 1..Len(a) : i <= Len(b) /\ Ch(a, i) # Ch(b, i) } IN
    IF Len(a) # Len(b) THEN 0
    ELSE IF differ = {} THEN Len(a)
    ELSE CHOOSE i \in differ : \A j \in differ : i <= j

\* the character comparisons a call timingSafeEqual(a, b) makes
comparisons(a, b) ==
    IF Len(a) # Len(b) THEN 0 ELSE iterations(a, b, Len(a))

\* the character comparisons a call verifyToken(token, storedToken) makes
verifyTokenComparisons(token, storedToken) ==
    IF token = "" \/ storedToken = "" THEN 0
    ELSE comparisons(token, storedToken)

verifyToken_noEmptyTest(token, storedToken) == timingSafeEqual(token, storedToken)

\* verifyToken(token, storedToken)
verifyToken(token, storedToken) ==
    IF token = "" \/ storedToken = "" THEN FALSE
    ELSE timingSafeEqual(token, storedToken)

getTokenFromRequest_queryFirst(req) ==
    IF ~Falsy(req.queryToken) THEN Str(sanitizeText(req.queryToken))
    ELSE IF ~Falsy(req.headerToken) THEN Str(sanitizeText(req.headerToken))
    ELSE IF req.bodyKind = "form" /\ ~Falsy(req.formToken)
         THEN Str(sanitizeText(req.formToken))
    ELSE Null

\* getTokenFromRequest(req); req.formData() throws unless the body is form data
getTokenFromRequest(req) ==
    IF ~Falsy(req.headerToken) THEN Str(sanitizeText(req.headerToken))
    ELSE IF req.bodyKind = "form" /\ ~Falsy(req.formToken)
         THEN Str(sanitizeText(req.formToken))
    ELSE IF ~Falsy(req.queryToken) THEN Str(sanitizeText(req.queryToken))
    ELSE Null

\* getStoredToken(req)
getStoredToken(req) == IF Falsy(req.cookie) THEN Null ELSE req.cookie

\* config.tokenLength
tokenLength == 32

\* chars of generateSecureToken
tokenChars == UpperLetters \o LowerLetters \o Digits

\* InputSanitizer.generateSecureToken(length): draws[i] is array[i] after
\* getRandomValues where window.crypto exists (secure), and Math.random() in
\* hundredths otherwise
RECURSIVE generateSecureToken(_, _, _)
generateSecureToken(length, secure, draws) ==
    IF length = 0 THEN ""
    ELSE generateSecureToken(length - 1, secure, draws)
            \o Ch(tokenChars,
                  1 + IF secure THEN draws[length] % Len(tokenChars)
                      ELSE ((draws[length] % 100) * Len(tokenChars)) \div 100)

\* generateToken()
generateToken(secure, draws) == generateSecureToken(tokenLength, secure, draws)

\* generateFormToken()
generateFormToken(secure, draws) ==
    LET token == generateToken(secure, draws) IN
    [token |-> token,
     field |-> "<input type=\"hidden\" name=\"csrf_token\" value=\"" \o token \o "\" />"]

\* formData.get(name)
formDataGet(formData, name) == IF name \in DOMAIN formData THEN formData[name] ELSE Null

validateFormToken_lengthOnly(formData) ==
    LET token == formDataGet(formData, "csrf_token") IN
    IF Falsy(token) \/ token.t # "string" THEN FALSE
    ELSE Len(token.s) = tokenLength

\* validateFormToken(formData)
validateFormToken(formData) ==
    LET token == formDataGet(formData, "csrf_token") IN
    IF Falsy(token) \/ token.t # "string" THEN FALSE
    ELSE /\ Len(token.s) = tokenLength
         /\ \A i \in 1..Len(token.s) : IsLetter(Ch(token.s, i)) \/ IsDigit(Ch(token.s, i))

\* tokens generateToken() may return
GeneratedTokens == {"Zx81Qa", "m0Lk9P"}

CsrfFailure ==
    Response(403, "CSRF token validation failed", "Invalid or missing CSRF token")

\* setTokenInResponse(res, token)
setTokenInResponse(res, token) == [res EXCEPT !.cookie = token]

middleware_validatesGet(req, handlerResponse, token) ==
    IF ~verifyToken(OrEmpty(getTokenFromRequest(req)), OrEmpty(getStoredToken(req)))
    THEN CsrfFailure
    ELSE IF req.method = "GET"
         THEN [handlerResponse EXCEPT !.cookie = token, !.handled = @ + 1]
    ELSE [handlerResponse EXCEPT !.handled = @ + 1]

middleware_rotatesOnPass(req, handlerResponse, token) ==
    IF req.method = "GET"
    THEN [handlerResponse EXCEPT !.cookie = token, !.handled = @ + 1]
    ELSE IF ~verifyToken(OrEmpty(getTokenFromRequest(req)), OrEmpty(getStoredToken(req)))
         THEN CsrfFailure
    ELSE [handlerResponse EXCEPT !.cookie = token, !.handled = @ + 1]

\* the function middleware(handler) returns, applied to req: handlerResponse is
\* what handler(req, res) returns if it is called, token what generateToken()
\* returns if it is called
middleware(req, handlerResponse, token) ==
    IF req.method = "GET"
    THEN [handlerResponse EXCEPT !.cookie = token, !.handled = @ + 1]
    ELSE IF ~verifyToken(OrEmpty(getTokenFromRequest(req)), OrEmpty(getStoredToken(req)))
         THEN CsrfFailure
    ELSE [handlerResponse EXCEPT !.handled = @ + 1]

(***************************************************************************)
(* The cancellation route  (src/app/api/cancellation/route.ts)             *)
(***************************************************************************)
\* handleCancellationCompletion(userId, variant, reason, amount, feedback)
handleCancellationCompletion_fails(userId, variant, reason, amount, feedback) == FALSE

handleCancellationCompletion(userId, variant, reason, amount, feedback) == TRUE

\* s.split(',')[0]
firstEntry(s) ==
    LET comma == indexOfFrom(s, ",", 1) IN
    IF comma = 0 THEN s ELSE Sub(s, 1, comma - 1)

getClientIP_realIpFirst(req) ==
    IF ~Falsy(req.realIp) THEN req.realIp.s
    ELSE IF req.xff.t = "string" /\ trim(firstEntry(req.xff.s)) # ""
    THEN trim(firstEntry(req.xff.s))
    ELSE IF ~Falsy(req.ip) THEN req.ip.s
    ELSE "unknown"

\* getClientIP(req)
getClientIP(req) ==
    IF req.xff.t = "string" /\ trim(firstEntry(req.xff.s)) # ""
    THEN trim(firstEntry(req.xff.s))
    ELSE IF ~Falsy(req.realIp) THEN req.realIp.s
    ELSE IF ~Falsy(req.ip) THEN req.ip.s
    ELSE "unknown"

\* the checks of handleCancellation on the sanitized fields, in their order
validationError_variantFirst(sanitizedData) ==
    IF sanitizedData.variant \notin {Str("A"), Str("B")}
    THEN "Invalid variant"
    ELSE IF \/ Falsy(sanitizedData.userId)
            \/ Falsy(sanitizedData.variant)
            \/ Falsy(sanitizedData.reason)
    THEN "Missing required fields"
    ELSE IF isMalicious(OrEmpty(sanitizedData.feedback))
    THEN "Malicious content detected"
    ELSE ""

validationError(sanitizedData) ==
    IF \/ Falsy(sanitizedData.userId)
       \/ Falsy(sanitizedData.variant)
       \/ Falsy(sanitizedData.reason)
    THEN "Missing required fields"
    ELSE IF sanitizedData.variant \notin {Str("A"), Str("B")}
    THEN "Invalid variant"
    ELSE IF isMalicious(OrEmpty(sanitizedData.feedback))
    THEN "Malicious content detected"
    ELSE ""

\* handleCancellation from "if (!result)" on: result is what
\* handleCancellationCompletion returned
completed(sanitizedData, result) ==
    IF ~result
    THEN [Response(500, "Failed to process cancellation", "")
             EXCEPT !.sanitized = 1, !.persisted = 1]
    ELSE [Response(200, "", "Cancellation processed successfully")
             EXCEPT !.success = TRUE, !.sanitized = 1, !.persisted = 1,
                    !.data = [userId |-> sanitizedData.userId,
                              variant |-> sanitizedData.variant,
                              reason |-> sanitizedData.reason]]

respond_persistFirst(sanitizedData) ==
    IF validationError(sanitizedData) # ""
    THEN [Response(400, validationError(sanitizedData), "")
             EXCEPT !.sanitized = 1, !.persisted = 1]
    ELSE completed(sanitizedData,
                   handleCancellationCompletion(sanitizedData.userId,
                       sanitizedData.variant, sanitizedData.reason,
                       sanitizedData.amount, sanitizedData.feedback))

\* handleCancellation from "Validate required fields" on
respond(sanitizedData) ==
    IF validationError(sanitizedData) # ""
    THEN [Response(400, validationError(sanitizedData), "") EXCEPT !.sanitized = 1]
    ELSE completed(sanitizedData,
                   handleCancellationCompletion(sanitizedData.userId,
                       sanitizedData.variant, sanitizedData.reason,
                       sanitizedData.amount, sanitizedData.feedback))

\* the exception of req.json() leaves handleCancellation
handleCancellation_noCatch(req) ==
    IF req.bodyKind # "json"
    THEN Response(0, "", "")
    ELSE respond(sanitizeObject(req.body, cancellationSchema))

\* handleCancellation(req); req.json() throws unless the body is JSON
handleCancellation(req) ==
    IF req.bodyKind # "json"
    THEN Response(500, "Internal server error", "")
    ELSE respond(sanitizeObject(req.body, cancellationSchema))

(***************************************************************************)
(* The requests of the model.                                              *)
(***************************************************************************)
CsrfRequests ==
    { [ method |-> m, headerToken |-> h, bodyKind |-> f[1], formToken |-> f[2],
        queryToken |-> q, cookie |-> c ] :
      m \in {"GET", "POST", "DELETE"},
      h \in {Undefined, Str(""), Str("tokA"), Str("tokB"), Str("<b>tokA</b>")},
      f \in {<<"json", Undefined>>, <<"form", Str("tokA")>>, <<"form", Str("tokB")>>},
      q \in {Undefined, Str("tokA")},
      c \in {Undefined, Str(""), Str("tokA"), Str("tokB")} }

VerifyInputs == {"", "a", "b", "ab", "abc", "abd", "xbc", "aXc", "ABC", "abcd"}

Body(userId, variant, reason, feedback) ==
    [userId |-> userId, variant |-> variant, reason |-> reason, feedback |-> feedback]

PlainFeedback == "The price is too high for me"

ScriptFeedback == "<script>alert('xss')</script>"

ValidBody == Body(Str("u1"), Str("A"), Str("too-expensive"), Undefined)

Bodies ==
    { ValidBody,
      Body(Str("u1"), Str("B"), Str("too-expensive"), Str(PlainFeedback)),
      Body(Str("u1"), Str("A"), Str("too-expensive"),
           Str(ScriptFeedback)),
      Body(Str("u1"), Str("A"), Str("too-expensive"),
           Str("vbvbscript:script: " \o PlainFeedback)),
      Body(Str("u1"), Str("<b>A</b>"), Str("too-expensive"), Undefined),
      Body(Undefined, Str("A"), Str("too-expensive"), Undefined),
      Body(Str("bad id!"), Str("C"), Str("too-expensive"),
           Str("vbvbscript:script: " \o PlainFeedback)),
      Body(Str("u1"), Undefined, Str("too-expensive"), Undefined),
      Body(Str("u1"), Str("A"), Str("too expensive!"), Undefined),
      Body(Str("u1"), Str("C"), Str("too-expensive"), Undefined),
      Body(Str("u1"), Str("C"), Str("too-expensive"),
           Str("oonclick=nclick=1 " \o PlainFeedback)),
      Body(Str("u1"), Str("B"), Str("too-expensive"),
           Str("oonclick=nclick=1 " \o PlainFeedback)) }

\* a POST of the client 10.0.0.1 with a JSON body
Post(headerToken, queryToken, cookie, body) ==
    [ method |-> "POST", xff |-> Str("10.0.0.1, 172.16.0.1"), realIp |-> Undefined,
      ip |-> Undefined, headerToken |-> headerToken, formToken |-> Undefined,
      queryToken |-> queryToken, cookie |-> cookie, bodyKind |-> "json",
      body |-> body ]

\* 'a'.repeat(n)
RECURSIVE repeat(_, _)
repeat(s, n) ==
    IF n = 0 THEN ""
    ELSE IF n % 2 = 0 THEN LET half == repeat(s, n \div 2) IN half \o half
    ELSE s \o repeat(s, n - 1)

\* arguments of the text functions of InputSanitizer
TextInputs ==
    { Undefined, Null, Num(5), Str(""), Str("  hello  "), Str("u_1"), Str("bad id!"),
      Str("12.50"), Str("12.505"), Str("too-expensive"), Str(PlainFeedback),
      Str(ScriptFeedback), Str("<b>bold</b> text"), Str("JaVaScRiPt:alert(1)"),
      Str("javajavascript:script:alert(1)"), Str("dadata:ta:text"),
      Str("vbvbscript:script:x"), Str("x onclick = y"), Str("ononload=click=z") }
    \cup
    \* plain strings at the bounds of sanitizeFeedback, strings whose length
    \* crosses a bound when trimmed, and a text of accepted length in which
    \* the single pass of sanitizeText leaves "javascript:"
    { Str(repeat("a", n)) : n \in {24, 25, 1000, 1001} }
    \cup
    { Str(" " \o repeat("a", 24)), Str("  " \o repeat("a", 1000)),
      Str("javajavascript:script:" \o repeat("a", 30)) }

\* arguments of sanitizeObject: null, undefined, a string, and objects with
\* fields missing, null, failing their pattern, and not in the schema
RawObjects ==
    { Undefined, Null, Str("text") } \cup Bodies \cup
    { [userId |-> Str("bad id!"), variant |-> Null, reason |-> Str("too-expensive"),
       admin |-> Str("true")],
      [userId |-> Str("u1"), variant |-> Str("<b>B</b>"), reason |-> Str("other"),
       amount |-> Str("12.50"), feedback |-> Str(PlainFeedback),
       role |-> Str("admin")] }

RouteRequests ==
    \* a matching x-csrf-token header and csrf-token cookie, every body
    { Post(Str("tokA"), Undefined, Str("tokA"), b) : b \in Bodies }
    \cup
    \* a missing, a wrong and an unmatched token, a token in the query
    { Post(tc[1], tc[2], tc[3], ValidBody) :
        tc \in { <<Undefined, Undefined, Str("tokA")>>,
                 <<Str("tokB"), Undefined, Str("tokA")>>,
                 <<Str("tokA"), Undefined, Undefined>>,
                 <<Undefined, Str("tokA"), Str("tokA")>> } }
    \cup
    \* no token at all, with a valid, a hostile and an incomplete body
    { Post(Undefined, Undefined, Undefined, b) :
        b \in { b \in Bodies : b.userId = Str("u1") /\ b.variant = Str("A")
                                 /\ b.reason = Str("too-expensive") } \cup
               { Body(Undefined, Str("A"), Str("too-expensive"), Undefined) } }
    \cup
    \* a body that is no JSON, from the same client
    { [ Post(Str("tokA"), Undefined, Str("tokA"), ValidBody) EXCEPT
          !.xff = Undefined, !.realIp = Str("10.0.0.1"), !.bodyKind = "bad" ] }

(***************************************************************************)
(* The operations on requests.                                             *)
(***************************************************************************)
\* a handler that answers 200
OkResponse == [Response(200, "", "") EXCEPT !.success = TRUE]

NoRequest == [method |-> ""]

\* the record of a call: of the middleware (the request, the tokens it
\* compared, the response) or of verifyToken (its arguments and result)
CsrfCall(op, req, token, storedToken, result, response) ==
    [op |-> op, req |-> req, token |-> token, storedToken |-> storedToken,
     result |-> result, resp |-> response,
     provided |-> IF op = "middleware" /\ req.method # "GET"
                  THEN getTokenFromRequest(req)
                  ELSE Undefined,
     comparisons |-> IF op \in {"", "generateFormToken", "validateFormToken"}
                        \/ (op = "middleware" /\ req.method = "GET")
                     THEN 0
                     ELSE verifyTokenComparisons(token, storedToken)]

\* what the middleware, wrapped around a handler that answers 200, does with
\* each request of the model, computed once
middlewareCall ==
    [req \in CsrfRequests |-> [token \in GeneratedTokens |->
        CsrfCall("middleware", req,
                 OrEmpty(getTokenFromRequest(req)), OrEmpty(getStoredToken(req)),
                 FALSE, middleware(req, OkResponse, token))]]

\* a request passes through csrfProtection.middleware(handler)
CsrfHandle(req) ==
    /\ \E token \in GeneratedTokens :
           csrf' = middlewareCall[req][token]
    /\ UNCHANGED <<focus, session, limiterVars, resp, ab, gate, price, race, san>>

\* GET of the cancellation route, the token endpoint; token is what
\* generateToken() returns
GET(token) ==
    setTokenInResponse(
        [Response(200, "", "") EXCEPT !.success = TRUE, !.csrfToken = token], token)

\* a GET request to the token endpoint is served
TokenGet ==
    /\ \E token \in GeneratedTokens :
           csrf' = CsrfCall("GET", NoRequest, "", "", FALSE, GET(token))
    /\ UNCHANGED <<focus, session, limiterVars, resp, ab, gate, price, race, san>>

\* csrf.verifyToken(token, storedToken) is called
VerifyToken(token, storedToken) ==
    /\ csrf' = CsrfCall("verifyToken", NoRequest, token, storedToken,
                        verifyToken(token, storedToken), Response(0, "", ""))
    /\ UNCHANGED <<focus, session, limiterVars, resp, ab, gate, price, race, san>>

\* the random draws of one call of generateSecureToken
Draws ==
    { [i \in 1..(tokenLength + 1) |-> (seed + step * i) % 256] :
        seed \in {0, 61, 200}, step \in {0, 1, 97} }

\* csrfProtection.generateFormToken() is called to render a form
GenerateFormToken ==
    /\ \E secure \in BOOLEAN, draws \in Draws :
           csrf' = CsrfCall("generateFormToken", NoRequest,
                            generateFormToken(secure, draws).token, "", FALSE,
                            Response(0, "", ""))
    /\ UNCHANGED <<focus, session, limiterVars, resp, ab, gate, price, race, san>>

\* a File in a form field
File == [t |-> "file"]

\* values of the csrf_token field of a submitted form: absent, a File, and
\* strings of the wrong length, with characters outside the pattern, and
\* well formed but never issued
FormFields ==
    { Undefined, File, Str(""), Str(repeat("a", tokenLength - 1)),
      Str(repeat("a", tokenLength + 1)), Str(repeat("Z9", tokenLength \div 2)),
      Str(repeat("a", tokenLength - 1) \o "-"),
      Str(repeat("a", tokenLength - 1) \o "\n"),
      Str(repeat("a", tokenLength - 1) \o " ") }

\* the form a submission carries
FormData(field) == IF field = Undefined THEN [other |-> Str("x")] ELSE [csrf_token |-> field]

\* csrfProtection.validateFormToken(formData) on a submitted form: the field
\* is one of FormFields or the token the form was rendered with (csrf.token);
\* cookie is the csrf-token cookie the request carries
ValidateFormToken(field, cookie) ==
    /\ csrf.op = "generateFormToken" \/ field \in FormFields
    /\ csrf.op = "generateFormToken" => field \in FormFields \cup {Str(csrf.token)}
    /\ csrf' = CsrfCall("validateFormToken",
                        [method |-> "POST", formData |-> FormData(field), cookie |-> cookie],
                        IF csrf.op = "generateFormToken" THEN csrf.token ELSE "",
                        OrEmpty(cookie), validateFormToken(FormData(field)),
                        Response(0, "", ""))
    /\ UNCHANGED <<focus, session, limiterVars, resp, ab, gate, price, race, san>>

InitCsrf == csrf = CsrfCall("", NoRequest, "", "", FALSE, Response(0, "", ""))

(***************************************************************************)
(* A browser across requests.  It stores the csrf-token cookie of the last *)
(* response that set one and sends it with every request; its pages send   *)
(* in the x-csrf-token header a token they got from the token endpoint.    *)
(***************************************************************************)
\* cookie: the stored csrf-token cookie; held: the tokens the pages got, in
\* the order of their first GET; passed: the header tokens that passed the
\* middleware since the cookie was last overwritten
Session(cookie, held, passed) == [cookie |-> cookie, held |-> held, passed |-> passed]

InitSession == session = Session(Undefined, <<>>, {})

\* the cookie jar after a response: cookies.set replaces the stored value
accept(cookie, response) ==
    IF response.cookie = "" THEN cookie ELSE Str(response.cookie)

\* the request a page sends with the browser's cookie
SessionRequest(method, headerToken) ==
    [method |-> method, headerToken |-> headerToken, bodyKind |-> "json",
     formToken |-> Undefined, queryToken |-> Undefined, cookie |-> session.cookie]

\* req passes through csrfProtection.middleware(handler) and the browser
\* takes the response's cookie
SessionHandle(req) ==
    /\ \E token \in GeneratedTokens :
           LET response == middleware(req, OkResponse, token) IN
           /\ csrf' = CsrfCall("middleware", req,
                               OrEmpty(getTokenFromRequest(req)),
                               OrEmpty(getStoredToken(req)), FALSE, response)
           /\ session' = [session EXCEPT
                  !.cookie = accept(@, response),
                  !.passed = IF accept(session.cookie, response) # session.cookie
                             THEN {}
                             ELSE IF req.method # "GET" /\ response.status = 200
                                  THEN @ \cup {req.headerToken}
                             ELSE @]
    /\ UNCHANGED <<focus, limiterVars, resp, ab, gate, price, race, san>>

\* a page is loaded with GET through the middleware
SessionGet == SessionHandle(SessionRequest("GET", Undefined))

\* a page sends a non-GET request
SessionSend(method, headerToken) ==
    /\ method # "GET"
    /\ SessionHandle(SessionRequest(method, headerToken))

\* a page fetches a token from the token endpoint; accepts: the browser
\* stores the cookie of the response
SessionToken(accepts) ==
    /\ \E token \in GeneratedTokens :
           LET response == GET(token) IN
           /\ csrf' = CsrfCall("GET", NoRequest, "", "", FALSE, response)
           /\ session' = [session EXCEPT
                  !.cookie = IF accepts THEN accept(@, response) ELSE @,
                  !.held = IF \E i \in 1..Len(@) : @[i] = response.csrfToken
                           THEN @ ELSE Append(@, response.csrfToken),
                  !.passed = IF accepts /\ accept(session.cookie, response) # session.cookie
                             THEN {} ELSE @]
    /\ UNCHANGED <<focus, limiterVars, resp, ab, gate, price, race, san>>

\* Math.ceil(x / 1000)
ceilSeconds_plusOne(x) == x \div 1000 + 1

ceilSeconds(x) ==
    IF x >= 0 THEN (x + 999) \div 1000 ELSE -((-x) \div 1000)

\* the 429 response of the route and of withRateLimit; t is Date.now()
TooManyRequests(result, t) ==
    [Response(429, "Too many requests", "Rate limit exceeded. Please try again later.")
        EXCEPT !.retryAfter = ceilSeconds(result.resetTime - t)]

\* getClientIP, handleCancellation and
\* csrfProtection.middleware(handleCancellation) on each request of the model,
\* computed once
clientIP == [req \in RouteRequests |-> getClientIP(req)]

handler == [req \in RouteRequests |-> handleCancellation(req)]

protectedHandler ==
    [req \in RouteRequests |-> middleware(req, handler[req], "")]

\* the tokens of each request of the model: the provided one, as
\* getTokenFromRequest returns it, and the stored one
tokens ==
    [req \in RouteRequests |->
        [provided |-> OrEmpty(getTokenFromRequest(req)),
         stored   |-> OrEmpty(getStoredToken(req))]]

\* the sanitized fields of each JSON body of the model, and whether the
\* sanitized feedback is malicious
sanitizedBody ==
    [req \in { r \in RouteRequests : r.bodyKind = "json" } |->
        sanitizeObject(req.body, cancellationSchema)]

\* what handleCancellation answers to each of them when
\* handleCancellationCompletion returns false
failedCompletion ==
    [req \in DOMAIN sanitizedBody |-> completed(sanitizedBody[req], FALSE)]

maliciousFeedback ==
    [req \in DOMAIN sanitizedBody |->
        isMalicious(OrEmpty(sanitizedBody[req].feedback))]

\* the request and its response, with its number among the check calls of the
\* client's window
Served(route, req, response) ==
    [route |-> route, req |-> req, response |-> response,
     nth |-> calls'["cancellation"][clientIP[req]],
     \* history, where it is kept (not -1): the requests of the client's
     \* window answered neither 200 nor 429
     unsuccessful |->
        IF resp.unsuccessful = -1 THEN -1
        ELSE (IF calls'["cancellation"][clientIP[req]] = 1 THEN 0 ELSE resp.unsuccessful)
             + (IF response.status \in {200, 429} THEN 0 ELSE 1)]

\* the CSRF middleware in front of the rate limit: a request it rejects is
\* answered without a call of check
PostV1_csrfFirst(req) ==
    IF protectedHandler[req].status = 403
    THEN /\ resp' = [route |-> "v1", req |-> req, response |-> protectedHandler[req],
                     nth |-> calls["cancellation"][clientIP[req]],
                     unsuccessful |-> resp.unsuccessful]
         /\ UNCHANGED <<focus, session, limiterVars, csrf, ab, gate, price, race, san>>
    ELSE /\ \E d \in Drifts, e \in Drifts :
              /\ LimiterCall("cancellation", clientIP[req], d, e)
              /\ last'.allowed => e = 0
              /\ resp' = Served("v1", req,
                           IF ~last'.allowed
                           THEN TooManyRequests(last', now')
                           ELSE protectedHandler[req])
         /\ UNCHANGED <<focus, session, csrf, ab, gate, price, race, san>>

\* POST of the first version of route.ts:
\* withRateLimit(csrfProtection.middleware(handleCancellation),
\*               cancellationRateLimiter, getClientIP)
\* (withRateLimit sets the X-RateLimit-* headers on its argument res, not on the
\* response it returns)
PostV1(req) ==
    /\ \E d \in Drifts, e \in Drifts :
        /\ LimiterCall("cancellation", clientIP[req], d, e)
        /\ last'.allowed => e = 0
        /\ resp' = Served("v1", req,
                     IF ~last'.allowed
                     THEN TooManyRequests(last', now')
                     ELSE protectedHandler[req])
    /\ UNCHANGED <<focus, session, csrf, ab, gate, price, race, san>>

\* POST of the second version of route.ts
PostV2(req) ==
    /\ \E d \in Drifts, e \in Drifts :
        /\ LimiterCall("cancellation", clientIP[req], d, e)
        /\ last'.allowed => e = 0
        /\ resp' = Served("v2", req,
                     IF ~last'.allowed
                     THEN TooManyRequests(last', now')
                     ELSE [handler[req] EXCEPT
                              !.handled = 1,
                              !.headers =
                                  RateLimitHeaders(
                                      rateLimiters.cancellation.maxRequests, last')])
    /\ UNCHANGED <<focus, session, csrf, ab, gate, price, race, san>>

\* no request yet; unsuccessful is the history of Served, -1 where it is not kept
NoneServed(unsuccessful) ==
    [route |-> "", req |-> NoRequest, response |-> Response(0, "", ""), nth |-> 0,
     unsuccessful |-> unsuccessful]

InitRoute == resp = NoneServed(-1)

(***************************************************************************)
(* The A/B assignment  (src/lib/ab-testing.ts)                             *)
(* ab.window: typeof window !== 'undefined'; ab.crypto: window.crypto and  *)
(* its getRandomValues exist; ab.storage[key]: localStorage.getItem(key),  *)
(* Null when the key is absent.                                            *)
(***************************************************************************)
ABUsers == {"u1", "u2"}

storageKey(userId) == "ab-variant-" \o userId

StorageKeys == { storageKey(u) : u \in ABUsers }

\* what localStorage may hold under a key before the first call
StoredValues == {Null, Str("A"), Str("B"), Str("b")}

\* values of array[0] after getRandomValues, and of Math.random() in hundredths
RandomBytes == {0, 127, 128, 255}
RandomHundredths == {0, 49, 50, 99}

\* the operation that throws during a call, if it is reached: a localStorage
\* operation or window.crypto.getRandomValues
StorageFailures == {"none", "getItem", "getRandomValues", "setItem"}

ABTestResult(variant, isNewAssignment) ==
    [variant |-> variant, isNewAssignment |-> isNewAssignment]

\* generateSecureVariant(); byte and rand are the random draws
generateSecureVariant(window, crypto, byte, rand) ==
    IF window /\ crypto
    THEN IF byte < 128 THEN "A" ELSE "B"
    ELSE IF rand < 50 THEN "A" ELSE "B"

\* localStorage.setItem(key, value)
setItem_dropped(storage, key, value) == storage

setItem_everyKey(storage, key, value) == [k \in DOMAIN storage |-> Str(value)]

setItem_keepExisting(storage, key, value) ==
    IF storage[key] \in {Str("A"), Str("B")} THEN storage
    ELSE [storage EXCEPT ![key] = Str(value)]

setItem(storage, key, value) == [storage EXCEPT ![key] = Str(value)]

\* what the catch block of getOrAssignVariant returns
catchResult_rethrow == ABTestResult("", FALSE)

catchResult == ABTestResult("A", FALSE)

\* getOrAssignVariant(userId): the new localStorage and the result
getOrAssignVariant(window, crypto, storage, userId, byte, rand, failure) ==
    IF window THEN
        IF failure = "getItem"
        THEN [storage |-> storage, result |-> catchResult]
        ELSE IF storage[storageKey(userId)] \in {Str("A"), Str("B")}
        THEN [storage |-> storage,
              result  |-> ABTestResult(storage[storageKey(userId)].s, FALSE)]
        ELSE IF failure \in {"getRandomValues", "setItem"}
        THEN [storage |-> storage, result |-> catchResult]
        ELSE [storage |-> setItem(storage, storageKey(userId),
                                  generateSecureVariant(window, crypto, byte, rand)),
              result  |-> ABTestResult(
                              generateSecureVariant(window, crypto, byte, rand), TRUE)]
    ELSE [storage |-> storage,
          result  |-> ABTestResult(generateSecureVariant(window, crypto, byte, rand),
                                   TRUE)]

NoABResult == ABTestResult("", FALSE)

\* one call of getOrAssignVariant(userId). History: ab.n[u] counts the calls for
\* u, ab.first[u] is what the first of them returned, ab.persistent[u] tells
\* whether every call for u so far ran in a browser whose localStorage worked.
GetOrAssignVariant(userId) ==
    \E byte \in RandomBytes, rand \in RandomHundredths, failure \in StorageFailures :
        LET r == getOrAssignVariant(ab.window, ab.crypto, ab.storage, userId,
                                    byte, rand, failure)
        IN  /\ ab.n[userId] < MaxCalls
            /\ ab.window /\ ab.crypto => rand = 0
            /\ ~(ab.window /\ ab.crypto) => byte = 0
            /\ ~ab.window => failure = "none"
            /\ failure = "getRandomValues" => ab.crypto
            /\ ab' = [ab EXCEPT
                        !.storage = r.storage,
                        !.n[userId] = @ + 1,
                        !.first[userId] = IF ab.n[userId] = 0 THEN r.result ELSE @,
                        !.persistent[userId] = @ /\ ab.window /\ failure = "none",
                        !.last = [userId |-> userId, result |-> r.result,
                                  failure |-> failure]]
            /\ UNCHANGED <<focus, session, limiterVars, csrf, resp, gate, price, race, san>>

\* a call of getOrAssignVariant in another tab of the browser, which shares
\* localStorage: the tabs run in parallel, so one tab's getItem (line 82) and
\* its setItem (line 95) may have the other tab's between them
Tabs == {"t1", "t2"}

IdleTab == [pc |-> "idle", userId |-> "", result |-> NoABResult]

\* a tab calls getOrAssignVariant(userId), up to the test of existingVariant
TabRead(t, userId) ==
    LET existingVariant == ab.storage[storageKey(userId)] IN
    /\ ab.window
    /\ ab.tabs[t].pc = "idle"
    /\ ab.n[userId] < MaxCalls
    /\ ab' = IF existingVariant \in {Str("A"), Str("B")}
             THEN [ab EXCEPT
                     !.n[userId] = @ + 1,
                     !.tabs[t] = [pc |-> "idle", userId |-> userId,
                                  result |-> ABTestResult(existingVariant.s, FALSE)]]
             ELSE [ab EXCEPT
                     !.n[userId] = @ + 1,
                     !.tabs[t] = [pc |-> "draw", userId |-> userId,
                                  result |-> NoABResult]]
    /\ UNCHANGED <<focus, session, limiterVars, csrf, resp, gate, price, race, san>>

\* the tab draws its variant, stores it and returns
TabWrite(t) ==
    \E byte \in RandomBytes, rand \in RandomHundredths :
        LET variant == generateSecureVariant(ab.window, ab.crypto, byte, rand) IN
        /\ ab.tabs[t].pc = "draw"
        /\ ab.crypto => rand = 0
        /\ ~ab.crypto => byte = 0
        /\ ab' = [ab EXCEPT
                    !.storage = setItem(ab.storage, storageKey(ab.tabs[t].userId), variant),
                    !.written = variant,
                    !.tabs[t] = [@ EXCEPT !.pc = "idle",
                                          !.result = ABTestResult(variant, TRUE)]]
        /\ UNCHANGED <<focus, session, limiterVars, csrf, resp, gate, price, race, san>>

\* initial: localStorage before the first call; written: the variant of the
\* last setItem of a tab
ABState(window, crypto, storage) ==
    [window |-> window, crypto |-> crypto, storage |-> storage,
     initial |-> storage, written |-> "",
     tabs |-> [t \in Tabs |-> IdleTab],
     n |-> [u \in ABUsers |-> 0],
     first |-> [u \in ABUsers |-> NoABResult],
     persistent |-> [u \in ABUsers |-> TRUE],
     last |-> [userId |-> "", result |-> NoABResult, failure |-> "none"]]

\* a browser with nothing stored
InitAB == ab = ABState(TRUE, TRUE, [k \in StorageKeys |-> Null])

(***************************************************************************)
(* The global middleware  (src/middleware.ts)                              *)
(* A request: method, the headers user-agent, x-forwarded-for, x-real-ip   *)
(* and forwarded (the other forwarding headers are absent), req.ip.        *)
(* A response: status, JSON body (error, message, retryAfter), the rate    *)
(* limit headers, whether the four hardening headers and X-Request-ID are  *)
(* set, and whether it is NextResponse.next().                             *)
(***************************************************************************)
GateResponse(status, error, message) ==
    [status |-> status, error |-> error, message |-> message, retryAfter |-> -1,
     headers |-> NoHeaders, hardening |-> FALSE, requestId |-> FALSE, next |-> FALSE]

suspiciousPatterns ==
    {"bot", "crawler", "spider", "scraper", "curl", "wget", "python", "java",
     "perl", "ruby"}

BrowserTokens == {"Mozilla", "Chrome", "Safari", "Firefox"}

\* isSuspicious && !userAgent.includes('Mozilla') && ...
automated(userAgent) ==
    /\ \E pattern \in suspiciousPatterns : includesCI(userAgent, pattern)
    /\ \A token \in BrowserTokens : ~includes(userAgent, token)

allowedMethods == {"GET", "POST", "PUT", "DELETE", "PATCH", "OPTIONS"}

\* value && (value.includes('localhost') || ...)
loopback(value) ==
    /\ ~Falsy(value)
    /\ \/ includes(value.s, "localhost")
       \/ includes(value.s, "127.0.0.1")
       \/ includes(value.s, "::1")

\* the suspicious headers a request of the model can carry
spoofed(request) ==
    loopback(request.xff) \/ loopback(request.realIp) \/ loopback(request.forwarded)

\* no check has rejected the request
NotRejected == GateResponse(0, "", "")

\* the checks 4 to 6 of middleware(request), in their order: the response of
\* the first that fails, if any
headerChecks_methodFirst(request) ==
    IF request.method \notin allowedMethods
    THEN GateResponse(405, "Method not allowed", "HTTP method not supported")
    ELSE IF automated(OrEmpty(request.userAgent))
    THEN GateResponse(403, "Access denied", "Automated access not allowed")
    ELSE IF spoofed(request)
    THEN GateResponse(403, "Access denied", "Invalid request headers")
    ELSE NotRejected

headerChecks(request) ==
    IF automated(OrEmpty(request.userAgent))
    THEN GateResponse(403, "Access denied", "Automated access not allowed")
    ELSE IF request.method \notin allowedMethods
    THEN GateResponse(405, "Method not allowed", "HTTP method not supported")
    ELSE IF spoofed(request)
    THEN GateResponse(403, "Access denied", "Invalid request headers")
    ELSE NotRejected

globalMiddleware_headersFirst(result, tBody, tHeader, rejection) ==
    IF rejection # NotRejected THEN rejection
    ELSE IF ~result.allowed
    THEN [GateResponse(429, "Too many requests",
                       "Rate limit exceeded. Please try again later.") EXCEPT
             !.retryAfter = ceilSeconds(result.resetTime - tBody),
             !.headers = [RateLimitHeaders(rateLimiters.api.maxRequests, result)
                             EXCEPT !.retryAfter = ceilSeconds(result.resetTime - tHeader)]]
    ELSE [GateResponse(200, "", "") EXCEPT
             !.next = TRUE,
             !.headers = RateLimitHeaders(rateLimiters.api.maxRequests, result),
             !.hardening = TRUE,
             !.requestId = TRUE]

\* middleware(request): result is what rateLimiters.api.check(clientIP)
\* returned, tBody and tHeader are Date.now() when the body and the Retry-After
\* header of a 429 are built, rejection is headerChecks(request)
globalMiddleware(result, tBody, tHeader, rejection) ==
    IF ~result.allowed
    THEN [GateResponse(429, "Too many requests",
                       "Rate limit exceeded. Please try again later.") EXCEPT
             !.retryAfter = ceilSeconds(result.resetTime - tBody),
             !.headers = [RateLimitHeaders(rateLimiters.api.maxRequests, result)
                             EXCEPT !.retryAfter = ceilSeconds(result.resetTime - tHeader)]]
    ELSE IF rejection # NotRejected THEN rejection
    ELSE [GateResponse(200, "", "") EXCEPT
             !.next = TRUE,
             !.headers = RateLimitHeaders(rateLimiters.api.maxRequests, result),
             !.hardening = TRUE,
             !.requestId = TRUE]

UserAgents ==
    {Undefined, Str("Mozilla/5.0 Chrome/120 Safari/537"), Str("curl/8.4"),
     Str("PYTHON-requests"), Str("Googlebot Mozilla compatible")}

GateRequests ==
    { [method |-> "GET", userAgent |-> ua, xff |-> Str("10.0.0.1"), realIp |-> Undefined,
       forwarded |-> Undefined, ip |-> Undefined] : ua \in UserAgents }
    \cup
    { [method |-> "TRACE", userAgent |-> ua, xff |-> Str("10.0.0.1"), realIp |-> Undefined,
       forwarded |-> Undefined, ip |-> Undefined] : ua \in {Undefined, Str("curl/8.4")} }
    \cup
    { [method |-> mt, userAgent |-> ua, xff |-> Str("10.0.0.1"),
       realIp |-> Str("127.0.0.1"), forwarded |-> Undefined, ip |-> Undefined] :
        mt \in {"GET", "TRACE"}, ua \in {Undefined, Str("curl/8.4")} }
    \cup
    { [method |-> "POST", userAgent |-> ua, xff |-> Str("10.0.0.1"),
       realIp |-> Str("LOCALHOST"), forwarded |-> fw, ip |-> Undefined] :
        ua \in {Undefined},
        fw \in {Undefined, Str("for=[::1]")} }

\* requests that differ in the headers and the peer address getClientIP reads
IdentityRequests ==
    { [method |-> "GET", userAgent |-> Undefined, xff |-> xff, realIp |-> realIp,
       forwarded |-> Undefined, ip |-> ip] :
        xff \in {Undefined, Str(""), Str(" 10.0.0.1 , 10.0.0.2"), Str("10.0.0.2"),
                 Str(" ,10.0.0.1")},
        realIp \in {Undefined, Str(""), Str("10.0.0.1")},
        ip \in {Undefined, Str("10.0.0.2")} }

\* the outcome of the checks 4 to 6 and the client of each request of the
\* model, computed once
gateChecks ==
    [request \in GateRequests \cup IdentityRequests |->
        [automated |-> automated(OrEmpty(request.userAgent)),
         badMethod |-> request.method \notin allowedMethods,
         spoofed   |-> spoofed(request),
         rejection |-> headerChecks(request),
         clientIP  |-> getClientIP(request)]]

\* one request passes through the global middleware; the clock may move
\* between the reads of Date.now()
Gatekeeper(request) ==
    /\ \E d \in Drifts, e1 \in Drifts, e2 \in Drifts :
        /\ LimiterCall("api", gateChecks[request].clientIP, d, e1 + e2)
        /\ last'.allowed => e1 + e2 = 0
        /\ gate' = [request |-> request,
                    response |-> globalMiddleware(last', last'.at + e1, now',
                                                 gateChecks[request].rejection),
                    nth |-> calls'["api"][gateChecks[request].clientIP]]
    /\ UNCHANGED <<focus, session, csrf, resp, ab, price, race, san>>

InitGate ==
    gate = [request |-> NoRequest, response |-> GateResponse(0, "", ""), nth |-> 0]

(***************************************************************************)
(* Pricing  (src/lib/ab-testing.ts)                                        *)
(***************************************************************************)
\* Math.max(a, b)
Max(a, b) == IF a >= b THEN a ELSE b

\* calculateDownsellPrice(currentPrice, variant)
calculateDownsellPrice_noFloor(currentPrice, variant) ==
    IF variant = "A" THEN currentPrice ELSE currentPrice - 1000

calculateDownsellPrice(currentPrice, variant) ==
    IF variant = "A" THEN currentPrice ELSE Max(currentPrice - 1000, 0)

PriceInput(currentPrice, variant) ==
    [currentPrice |-> currentPrice, variant |-> variant, computed |-> FALSE,
     result |-> -1]

\* calculateDownsellPrice is called with the input
CalculateDownsellPrice ==
    /\ ~price.computed
    /\ price' = [price EXCEPT
                    !.computed = TRUE,
                    !.result = calculateDownsellPrice(price.currentPrice, price.variant)]
    /\ UNCHANGED <<focus, session, limiterVars, csrf, resp, ab, gate, race, san>>

InitPrice == price = PriceInput(2500, "A")

(***************************************************************************)
(* Requests of one client that run check() side by side.                   *)
(* In the cooperative runtime (race.atomic) a call of check runs to its    *)
(* end before another begins. Otherwise a request reads the entry of its   *)
(* key (lines 509-538) in one step and stores the entry it computed from   *)
(* what it read (lines 514-517, 527-530, 548) in a later one.              *)
(***************************************************************************)
Requesters == {"r1", "r2"}

RaceKey == "10.0.0.1"

RaceState(atomic) ==
    [atomic |-> atomic,
     pc |-> [p \in Requesters |-> "idle"],
     seen |-> [p \in Requesters |-> NoEntry],
     started |-> 0,       \* calls of check begun
     allowed |-> 0,       \* results with allowed = true
     overlapped |-> FALSE \* a request stored its entry after another had
                          \* replaced the one it had read
    ]

\* what check computes from the entry a request has read
FromSeen(entry) ==
    checkBody(rateLimiters.auth, [store.auth EXCEPT ![RaceKey] = entry], RaceKey, now)

\* a request runs check(key) to its end
CheckAtomic(p) ==
    /\ race.atomic
    /\ LimiterCall("auth", RaceKey, 0, 0)
    /\ race' = [race EXCEPT !.started = @ + 1,
                            !.allowed = IF last'.allowed THEN @ + 1 ELSE @]
    /\ UNCHANGED <<focus, session, csrf, resp, ab, gate, price, san>>

\* a request runs cleanup() and reads the entry of its key; if the limit is
\* reached it is answered at once
CheckRead(p) ==
    /\ ~race.atomic
    /\ race.pc[p] = "idle"
    /\ race.started < rateLimiters.auth.maxRequests + MaxDenied
    /\ LET st == cleanup(store.auth, now)
           denied == ~FromSeen(st[RaceKey]).result.allowed
       IN  /\ store' = [store EXCEPT !.auth = st]
           /\ race' = [race EXCEPT !.started = @ + 1,
                                   !.seen[p] = st[RaceKey],
                                   !.pc[p] = IF denied THEN "idle" ELSE "write"]
    /\ UNCHANGED <<focus, session, now, advances, last, winStart, calls, unswept, proto, csrf, resp,
                   ab, gate, price, san>>

\* the request stores the entry it computed and is answered
CheckWrite(p) ==
    /\ ~race.atomic
    /\ race.pc[p] = "write"
    /\ store' = [store EXCEPT !.auth = FromSeen(race.seen[p]).store]
    /\ race' = [race EXCEPT !.pc[p] = "idle",
                            !.allowed = @ + 1,
                            !.overlapped = @ \/ store.auth[RaceKey] # race.seen[p]]
    /\ UNCHANGED <<focus, session, now, advances, last, winStart, calls, unswept, proto, csrf, resp,
                   ab, gate, price, san>>

InitRace == race = RaceState(TRUE)

(***************************************************************************)
(* Keys that name a property of Object.prototype. store is a plain object  *)
(* ({}), so for such a key store[key] finds the inherited value, an object *)
(* with neither count nor resetTime, and check takes it for an entry.      *)
(***************************************************************************)
PrototypeKeys == {"constructor", "toString"}

NaN == [t |-> "NaN"]

\* ToNumber(v) of undefined, NaN or a number
ToNumber(v) == IF v.t = "number" THEN v ELSE NaN

\* a <= b and a >= b: false where an operand is NaN
lessOrEqual(a, b) ==
    ToNumber(a) # NaN /\ ToNumber(b) # NaN /\ ToNumber(a).n <= ToNumber(b).n

greaterOrEqual(a, b) ==
    ToNumber(a) # NaN /\ ToNumber(b) # NaN /\ ToNumber(a).n >= ToNumber(b).n

\* a - b
minus(a, b) ==
    IF ToNumber(a) = NaN \/ ToNumber(b) = NaN THEN NaN
    ELSE Num(ToNumber(a).n - ToNumber(b).n)

\* the lines of check after cleanup() where store[key] is an inherited object
\* whose count property is count: the object is truthy, its resetTime is
\* undefined; replaced tells whether check stored an entry of its own
checkInherited(config, count, t) ==
    LET entry == [count |-> count, resetTime |-> Undefined] IN
    IF lessOrEqual(entry.resetTime, Num(t))
    THEN [count |-> count, replaced |-> TRUE,
          result |-> [allowed |-> TRUE, remaining |-> Num(config.maxRequests - 1),
                      resetTime |-> Num(t + config.windowMs)]]
    ELSE IF greaterOrEqual(entry.count, Num(config.maxRequests))
    THEN [count |-> count, replaced |-> FALSE,
          result |-> [allowed |-> FALSE, remaining |-> Num(0),
                      resetTime |-> entry.resetTime]]
    ELSE LET incremented == minus(entry.count, Num(-1)) IN
         [count |-> incremented, replaced |-> FALSE,
          result |-> [allowed |-> TRUE,
                      remaining |-> minus(Num(config.maxRequests), incremented),
                      resetTime |-> entry.resetTime]]

\* a number as last records it; NaN and undefined are recorded as -1, which no
\* count, remaining or time of the model equals
recorded(v) == IF v.t = "number" THEN v.n ELSE -1

\* limiter.check(key) for a key of PrototypeKeys
CheckInherited(l, k) ==
    /\ \E d \in Drifts :
        /\ d > 0 => advances + 1 <= MaxAdvances
        /\ LET t == now + d
               c == checkInherited(rateLimiters[l], proto[k], t)
           IN  /\ ~c.replaced
               /\ store' = [store EXCEPT ![l] = cleanup(store[l], now)]
               /\ proto' = [proto EXCEPT ![k] = c.count]
               /\ now' = t
               /\ advances' = advances + (IF d > 0 THEN 1 ELSE 0)
               /\ last' = Last("check", l, k, t, NoEntry,
                               [allowed |-> c.result.allowed,
                                remaining |-> recorded(c.result.remaining),
                                resetTime |-> recorded(c.result.resetTime),
                                count |-> recorded(c.count)])
    /\ UNCHANGED <<focus, session, winStart, calls, unswept, csrf, resp, ab, gate, price, race, san>>

\* no property of Object.prototype has a count
InitProto == proto = [k \in PrototypeKeys |-> Undefined]

(***************************************************************************)
(* SpecRL: one RateLimiter instance, with any of the four configurations,  *)
(* under check, reset and getStatus calls and the passing of time.         *)
(***************************************************************************)
InitRL == focus \in LimiterNames /\ InitLimiters /\ InitProto /\ InitUnswept /\ InitCsrf /\ InitSession /\ InitSan /\ InitRace /\ InitRoute /\ InitAB /\ InitGate /\ InitPrice

NextRL ==
    \/ \E k \in KeysFor(focus) : Check(focus, k)
    \/ \E k \in KeysFor(focus) : Reset(focus, k)
    \/ \E k \in KeysFor(focus) : GetStatus(focus, k)
    \/ Advance(focus)

SpecRL == InitRL /\ [][NextRL]_vars

(***************************************************************************)
(* SpecSession: one browser loads pages, fetches tokens and sends non-GET  *)
(* requests with a token it holds, a token never issued, or none.          *)
(***************************************************************************)
InitSessionSpec == focus = "api" /\ InitLimiters /\ InitProto /\ InitUnswept /\ InitCsrf /\ InitSession /\ InitSan /\ InitRace /\ InitRoute /\ InitAB /\ InitGate /\ InitPrice

\* the x-csrf-token header of a request: a token a page holds, one that was
\* never issued, or no header
SentTokens ==
    {Str(session.held[i]) : i \in 1..Len(session.held)} \cup {Str("tokA"), Undefined}

NextSession ==
    \/ SessionGet
    \/ \E accepts \in BOOLEAN : SessionToken(accepts)
    \/ \E method \in {"POST", "DELETE"}, headerToken \in SentTokens :
           SessionSend(method, headerToken)

SpecSession == InitSessionSpec /\ [][NextSession]_vars

(***************************************************************************)
(* SpecCSRF: requests of every method through the CSRF middleware, calls  *)
(* of verifyToken, and GET requests to the token endpoint.                 *)
(***************************************************************************)
InitCSRF == focus = "api" /\ InitLimiters /\ InitProto /\ InitUnswept /\ InitCsrf /\ InitSession /\ InitSan /\ InitRace /\ InitRoute /\ InitAB /\ InitGate /\ InitPrice

NextCSRF ==
    \/ \E req \in CsrfRequests : CsrfHandle(req)
    \/ \E a \in VerifyInputs, b \in VerifyInputs : VerifyToken(a, b)
    \/ TokenGet

SpecCSRF == InitCSRF /\ [][NextCSRF]_vars

(***************************************************************************)
(* SpecForm: forms rendered with generateFormToken and submissions checked *)
(* by validateFormToken.                                                   *)
(***************************************************************************)
InitFormSpec == focus = "api" /\ InitLimiters /\ InitProto /\ InitUnswept /\ InitCsrf /\ InitSession /\ InitSan /\ InitRace /\ InitRoute /\ InitAB /\ InitGate /\ InitPrice

\* the csrf-token cookie of a submission: none, the first token of the model,
\* or the token of the form
FormCookies ==
    {Undefined, Str(repeat("a", tokenLength))}
        \cup (IF csrf.op = "generateFormToken" THEN {Str(csrf.token)} ELSE {})

NextForm ==
    \/ GenerateFormToken
    \/ \E field \in FormFields \cup {Str(csrf.token)}, cookie \in FormCookies :
           ValidateFormToken(field, cookie)

SpecForm == InitFormSpec /\ [][NextForm]_vars

(***************************************************************************)
(* SpecRoute: POST requests of one client to the two versions of the       *)
(* cancellation route, and the passing of time.                            *)
(***************************************************************************)
InitRouteSpec == focus = "cancellation" /\ InitLimiters /\ InitProto /\ InitUnswept /\ InitCsrf /\ InitSession /\ InitSan /\ InitRace /\ InitRoute /\ InitAB /\ InitGate /\ InitPrice

\* time passes between two requests
Tick == advances < RouteAdvances /\ Advance("cancellation")

NextRoute ==
    \/ \E req \in RouteRequests : PostV1(req)
    \/ \E req \in RouteRequests : PostV2(req)
    \/ Tick

SpecRoute == InitRouteSpec /\ [][NextRoute]_vars

(***************************************************************************)
(* SpecQuota: POST requests of one client to the two versions of the       *)
(* cancellation route that are answered 200, 400, 403 and 500, and the     *)
(* passing of time.                                                        *)
(***************************************************************************)
InitQuotaSpec ==
    focus = "cancellation" /\ InitLimiters /\ InitProto /\ InitUnswept /\ InitCsrf /\ InitSession /\ InitSan /\ InitRace /\ InitAB /\ InitGate /\ InitPrice
                           /\ resp = NoneServed(0)

\* a valid request, one without userId, one whose x-csrf-token differs from
\* the cookie, and one whose body is no JSON
QuotaRequests ==
    { Post(Str("tokA"), Undefined, Str("tokA"), ValidBody),
      Post(Str("tokA"), Undefined, Str("tokA"),
           Body(Undefined, Str("A"), Str("too-expensive"), Undefined)),
      Post(Str("tokB"), Undefined, Str("tokA"), ValidBody) }
    \cup { req \in RouteRequests : req.bodyKind = "bad" }

NextQuota ==
    \/ \E req \in QuotaRequests : PostV1(req)
    \/ \E req \in QuotaRequests : PostV2(req)
    \/ Tick

SpecQuota == InitQuotaSpec /\ [][NextQuota]_vars

(***************************************************************************)
(* SpecAB: calls of getOrAssignVariant for two users, in a browser with or *)
(* without window.crypto or on the server, over any earlier content of     *)
(* localStorage, with localStorage calls that may throw.                   *)
(***************************************************************************)
InitABSpec ==
    /\ focus = "api" /\ InitLimiters /\ InitProto /\ InitUnswept /\ InitCsrf /\ InitSession /\ InitSan /\ InitRace /\ InitRoute /\ InitGate /\ InitPrice
    /\ \E window \in BOOLEAN, crypto \in BOOLEAN :
           /\ ~window => ~crypto
           /\ \E storage \in [StorageKeys -> StoredValues] :
                  /\ ~window => storage = [k \in StorageKeys |-> Null]
                  /\ ab = ABState(window, crypto, storage)

NextAB == \E u \in ABUsers : GetOrAssignVariant(u)

SpecAB == InitABSpec /\ [][NextAB]_vars

(***************************************************************************)
(* SpecTabs: calls of getOrAssignVariant for one user in two tabs of a     *)
(* browser, over any earlier content of localStorage.                      *)
(***************************************************************************)
InitTabsSpec ==
    /\ focus = "api" /\ InitLimiters /\ InitProto /\ InitUnswept /\ InitCsrf /\ InitSession /\ InitSan /\ InitRace /\ InitRoute /\ InitGate
    /\ InitPrice
    /\ \E crypto \in BOOLEAN, storage \in [StorageKeys -> StoredValues] :
           ab = ABState(TRUE, crypto, storage)

NextTabs ==
    \/ \E t \in Tabs : TabRead(t, "u1")
    \/ \E t \in Tabs : TabWrite(t)

SpecTabs == InitTabsSpec /\ [][NextTabs]_vars

(***************************************************************************)
(* SpecSanitizer: one call of a function of InputSanitizer on one          *)
(* argument.                                                               *)
(***************************************************************************)
InitSanitizerSpec ==
    /\ focus = "api" /\ InitLimiters /\ InitProto /\ InitUnswept /\ InitCsrf /\ InitSession /\ InitRace /\ InitRoute /\ InitAB
    /\ InitGate /\ InitPrice
    /\ \E fn \in SanitizerFunctions :
          \E input \in IF fn = "sanitizeObject" THEN RawObjects ELSE TextInputs :
              san = SanitizerCall(fn, input)

NextSanitizer == Sanitize

SpecSanitizer == InitSanitizerSpec /\ [][NextSanitizer]_vars

(***************************************************************************)
(* SpecPrice: calculateDownsellPrice applied to a price of 0..MaxPrice     *)
(* cents and a variant.                                                    *)
(***************************************************************************)
InitPriceSpec ==
    /\ focus = "api" /\ InitLimiters /\ InitProto /\ InitUnswept /\ InitCsrf /\ InitSession /\ InitSan /\ InitRace /\ InitRoute /\ InitAB /\ InitGate
    /\ \E currentPrice \in 0..MaxPrice, variant \in {"A", "B"} :
           price = PriceInput(currentPrice, variant)

NextPrice == CalculateDownsellPrice

SpecPrice == InitPriceSpec /\ [][NextPrice]_vars

(***************************************************************************)
(* SpecGate: requests of one client to the global middleware, and the      *)
(* passing of time.                                                        *)
(***************************************************************************)
InitGateSpec ==
    focus = "api" /\ InitLimiters /\ InitProto /\ InitUnswept /\ InitCsrf /\ InitSession /\ InitSan /\ InitRace /\ InitRoute /\ InitAB /\ InitGate
                  /\ InitPrice

\* time passes between two requests
GateTick == advances < RouteAdvances /\ Advance("api")

NextGate ==
    \/ \E request \in GateRequests : Gatekeeper(request)
    \/ GateTick

SpecGate == InitGateSpec /\ [][NextGate]_vars

(***************************************************************************)
(* SpecClient: the global middleware on requests that name their client in *)
(* X-Forwarded-For, in X-Real-IP, by the peer address or not at all.       *)
(***************************************************************************)
InitClientSpec ==
    focus = "api" /\ InitLimiters /\ InitProto /\ InitUnswept /\ InitCsrf /\ InitSession /\ InitSan /\ InitRace /\ InitRoute /\ InitAB /\ InitGate
                  /\ InitPrice

\* the requests counted in the current windows of the general limiter
Identified == calls.api["10.0.0.1"] + calls.api["10.0.0.2"] + calls.api["unknown"]

NextClient ==
    \E request \in IdentityRequests : Identified < MaxIdentified /\ Gatekeeper(request)

SpecClient == InitClientSpec /\ [][NextClient]_vars

(***************************************************************************)
(* SpecKeys: the auth limiter checked for a client key and for keys that   *)
(* name properties of Object.prototype, and the passing of time.           *)
(***************************************************************************)
InitKeysSpec ==
    focus = "auth" /\ InitLimiters /\ InitProto /\ InitUnswept /\ InitCsrf /\ InitSession /\ InitSan /\ InitRace /\ InitRoute /\ InitAB /\ InitGate
                   /\ InitPrice

NextKeys ==
    \/ \E k \in ClientKeys : Check("auth", k)
    \/ \E k \in PrototypeKeys : CheckInherited("auth", k)
    \/ Advance("auth")

SpecKeys == InitKeysSpec /\ [][NextKeys]_vars

(***************************************************************************)
(* SpecSweep: the auth limiter under check and getStatus calls of two keys *)
(* and the passing of time, with a limiter that never calls cleanup()      *)
(* given the same check calls.                                             *)
(***************************************************************************)
InitSweepSpec ==
    /\ focus = "auth" /\ InitLimiters /\ InitProto /\ unswept = Unswept(TRUE)
    /\ InitCsrf /\ InitSession /\ InitSan /\ InitRace /\ InitRoute /\ InitAB /\ InitGate /\ InitPrice

NextSweep ==
    \/ \E k \in ClientKeys : Check("auth", k)
    \/ \E k \in ClientKeys : GetStatus("auth", k)
    \/ Advance("auth")

SpecSweep == InitSweepSpec /\ [][NextSweep]_vars

(***************************************************************************)
(* SpecRace: two requests of one client in check() of the auth limiter,    *)
(* within one window, in the cooperative runtime or with their steps       *)
(* interleaved.                                                            *)
(***************************************************************************)
InitRaceSpec ==
    /\ focus = "auth" /\ InitLimiters /\ InitProto /\ InitUnswept /\ InitCsrf /\ InitSession /\ InitSan /\ InitRoute /\ InitAB /\ InitGate
    /\ InitPrice
    /\ \E atomic \in BOOLEAN : race = RaceState(atomic)

NextRace ==
    \E p \in Requesters : CheckAtomic(p) \/ CheckRead(p) \/ CheckWrite(p)

SpecRace == InitRaceSpec /\ [][NextRace]_vars

(***************************************************************************)
(* SpecLimiters: the four limiters side by side, auth with two clients and *)
(* run up to its limit, the others with one client, and the passing of     *)
(* time.                                                                   *)
(***************************************************************************)
InitLimitersSpec ==
    focus = "auth" /\ InitLimiters /\ InitProto /\ InitUnswept /\ InitCsrf /\ InitSession /\ InitSan /\ InitRace /\ InitRoute /\ InitAB /\ InitGate
                   /\ InitPrice

\* the calls counted in the current windows
ChecksMade ==
    calls.auth["10.0.0.1"] + calls.auth["10.0.0.2"] + calls.api["10.0.0.1"]
    + calls.cancellation["10.0.0.1"] + calls.feedback["10.0.0.1"]

\* check(k) on limiter l, one of several
CheckOneOf(l, k) ==
    /\ ChecksMade < MaxChecks
    /\ LimiterCall(l, k, 0, 0)
    /\ UNCHANGED <<focus, session, csrf, resp, ab, gate, price, race, san>>

\* the auth window elapses, or all but its last millisecond
AuthTick == advances < RouteAdvances /\ Advance("auth")

NextLimiters ==
    \/ \E k \in ClientKeys : CheckOneOf("auth", k)
    \/ \E l \in LimiterNames \ {"auth"} : CheckOneOf(l, "10.0.0.1")
    \/ AuthTick

SpecLimiters == InitLimitersSpec /\ [][NextLimiters]_vars

(***************************************************************************)
(* C1: within one window of a key (no reset of the key, the clock below    *)
(* the entry's resetTime) exactly the first maxRequests check calls are    *)
(* allowed; every later call is denied with remaining = 0 and leaves the   *)
(* stored count at maxRequests.                                            *)
(***************************************************************************)
ThmC1 ==
    last.op = "check" =>
        LET n == calls[last.lim][last.key]
            m == rateLimiters[last.lim].maxRequests
        IN  /\ last.allowed <=> n <= m
            /\ n > m => /\ last.remaining = 0
                        /\ store[last.lim][last.key].count = m

\* a second denied call in one window
WitC1 ==
    /\ last.op = "check"
    /\ ~last.allowed
    /\ calls[last.lim][last.key] = rateLimiters[last.lim].maxRequests + 2
    /\ store[last.lim][last.key].count = rateLimiters[last.lim].maxRequests

(***************************************************************************)
(* C2: a check(key) made when the clock has reached the resetTime of the   *)
(* key's entry (now >= resetTime) is a fresh first call, whatever went     *)
(* before: allowed, remaining = maxRequests - 1, resetTime = now +         *)
(* windowMs, stored count 1.                                               *)
(***************************************************************************)
ThmC2 ==
    (last.op = "check" /\ last.prior # NoEntry /\ last.prior.resetTime <= last.at) =>
        LET config == rateLimiters[last.lim] IN
        /\ last.allowed
        /\ last.remaining = config.maxRequests - 1
        /\ last.resetTime = last.at + config.windowMs
        /\ store[last.lim][last.key] =
               [count |-> 1, resetTime |-> last.at + config.windowMs]

\* a blocked key is allowed again exactly at its resetTime
WitC2 ==
    /\ last.op = "check"
    /\ last.prior.count = rateLimiters[last.lim].maxRequests
    /\ last.prior.resetTime = last.at
    /\ last.allowed
    /\ store[last.lim][last.key].count = 1

(***************************************************************************)
(* C3: every POST to the cancellation endpoint passes CSRF validation      *)
(* before any field processing: a POST that got past the rate limiter and  *)
(* whose provided token is missing or differs from the stored cookie token *)
(* is answered 403 and reaches neither sanitization nor                    *)
(* handleCancellationCompletion.                                           *)
(***************************************************************************)
ClaimC3 ==
    (/\ resp.route # ""
     /\ resp.response.status # 429
     /\ \/ tokens[resp.req].provided = ""
        \/ tokens[resp.req].provided # tokens[resp.req].stored) =>
        /\ resp.response.status = 403
        /\ resp.response.sanitized = 0
        /\ resp.response.persisted = 0

(***************************************************************************)
(* C4: for a request whose method is not GET, the CSRF middleware invokes  *)
(* the wrapped handler if and only if the provided token and the stored    *)
(* cookie token are both non-empty and equal; otherwise it answers 403     *)
(* with the CSRF error body and the handler is not invoked.                *)
(***************************************************************************)
ThmC4 ==
    (csrf.op = "middleware" /\ csrf.req.method # "GET") =>
        LET valid == /\ csrf.token # ""
                     /\ csrf.storedToken # ""
                     /\ csrf.token = csrf.storedToken
        IN  /\ csrf.resp.handled = 1 <=> valid
            /\ valid => csrf.resp = [OkResponse EXCEPT !.handled = 1]
            /\ ~valid => /\ csrf.resp.status = 403
                         /\ csrf.resp.error = "CSRF token validation failed"
                         /\ csrf.resp.message = "Invalid or missing CSRF token"
                         /\ csrf.resp.handled = 0

\* a DELETE whose token comes from the form field and differs from the cookie
\* is answered 403
WitC4 ==
    /\ csrf.op = "middleware"
    /\ csrf.req.method = "DELETE"
    /\ csrf.req.headerToken = Undefined
    /\ csrf.token = "tokB"
    /\ csrf.storedToken = "tokA"
    /\ csrf.resp.status = 403
    /\ csrf.resp.handled = 0

(***************************************************************************)
(* C5: verifyToken(token, storedToken) is true exactly when both strings   *)
(* are non-empty and identical; it is false when either is empty, when the *)
(* lengths differ and when they differ in one character position.         *)
(***************************************************************************)
ThmC5 ==
    csrf.op = "verifyToken" =>
        (csrf.result <=> /\ csrf.token # ""
                         /\ csrf.storedToken # ""
                         /\ csrf.token = csrf.storedToken)

\* two tokens that differ in their last character only are rejected
WitC5 ==
    /\ csrf.op = "verifyToken"
    /\ csrf.token = "abc"
    /\ csrf.storedToken = "abd"
    /\ ~csrf.result

(***************************************************************************)
(* C6: a POST whose feedback is <script>alert('xss')</script>, with valid  *)
(* userId, variant and reason, a valid CSRF pair and under the rate limit, *)
(* is answered 400 with an error indicating malicious content, and         *)
(* handleCancellationCompletion is not called.                             *)
(***************************************************************************)
ScriptRequest ==
    Post(Str("tokA"), Undefined, Str("tokA"),
         Body(Str("u1"), Str("A"), Str("too-expensive"), Str(ScriptFeedback)))

ClaimC6 ==
    (/\ resp.req = ScriptRequest
     /\ resp.nth <= rateLimiters.cancellation.maxRequests) =>
        /\ resp.response.status = 400
        /\ resp.response.error = "Malicious content detected"
        /\ resp.response.persisted = 0

ValidRequest == Post(Str("tokA"), Undefined, Str("tokA"), ValidBody)

ThmC8 ==
    (/\ resp.req = ValidRequest
     /\ resp.nth <= rateLimiters.cancellation.maxRequests) =>
        /\ resp.response.status = 200
        /\ resp.response.success
        /\ resp.response.data.variant = Str("A")
        /\ resp.response.persisted = 1

WitC8 ==
    /\ resp.req = ValidRequest
    /\ resp.route = "v1"
    /\ resp.nth = rateLimiters.cancellation.maxRequests
    /\ resp.response.status = 200
    /\ resp.response.persisted = 1

(***************************************************************************)
(* C9: the cancellation handler answers 400 whenever, after sanitization,  *)
(* userId, variant or reason is missing, null or empty, or variant is not  *)
(* 'A' or 'B', or isMalicious(feedback) holds; of these checks, made in    *)
(* that order, the first that fails determines the error body, and         *)
(* handleCancellationCompletion is not called.                             *)
(***************************************************************************)
ThmC9 ==
    (resp.route # "" /\ resp.response.sanitized = 1) =>
        LET data == sanitizedBody[resp.req]
            missing == \/ data.userId \in {Undefined, Null, Str("")}
                       \/ data.variant \in {Undefined, Null, Str("")}
                       \/ data.reason \in {Undefined, Null, Str("")}
            invalid == data.variant # Str("A") /\ data.variant # Str("B")
            malicious == maliciousFeedback[resp.req]
            error == IF missing THEN "Missing required fields"
                     ELSE IF invalid THEN "Invalid variant"
                     ELSE "Malicious content detected"
        IN  IF missing \/ invalid \/ malicious
            THEN /\ resp.response.status = 400
                 /\ resp.response.error = error
                 /\ resp.response.persisted = 0
            ELSE resp.response.status # 400

\* a body failing all three checks is answered with the first one's error
WitC9 ==
    /\ resp.route # ""
    /\ resp.req.body = Body(Str("bad id!"), Str("C"), Str("too-expensive"),
                            Str("vbvbscript:script: " \o PlainFeedback))
    /\ maliciousFeedback[resp.req]
    /\ resp.response.status = 400
    /\ resp.response.error = "Missing required fields"

(***************************************************************************)
(* C10: getOrAssignVariant is idempotent when persistence is available     *)
(* (a browser whose localStorage works): after a first call for a user has *)
(* returned, every later call for that user returns the variant of the     *)
(* first call with isNewAssignment = false.                                *)
(***************************************************************************)
ThmC10 ==
    \A u \in ABUsers :
        (ab.last.userId = u /\ ab.n[u] >= 2 /\ ab.persistent[u]) =>
            ab.last.result = ABTestResult(ab.first[u].variant, FALSE)

\* the second call for a user whose first call drew variant B
WitC10 ==
    /\ ab.last.userId = "u1"
    /\ ab.n["u1"] = 2
    /\ ab.persistent["u1"]
    /\ ab.first["u1"] = ABTestResult("B", TRUE)
    /\ ab.last.result = ABTestResult("B", FALSE)

(***************************************************************************)
(* C11: whatever a call of getOrAssignVariant stores for a user is 'A' or  *)
(* 'B', and once a valid variant is persisted for a user no later call of  *)
(* getOrAssignVariant, for that or any other user, changes it.             *)
(***************************************************************************)
ThmC11 ==
    [][\A k \in StorageKeys :
          /\ ab'.storage[k] # ab.storage[k] => ab'.storage[k] \in {Str("A"), Str("B")}
          /\ ab.storage[k] \in {Str("A"), Str("B")} => ab'.storage[k] = ab.storage[k]
      ]_vars

\* u1 holds the variant its first call drew, after later calls for both users
WitC11 ==
    /\ ab.first["u1"] = ABTestResult("A", TRUE)
    /\ ab.storage[storageKey("u1")] = Str("A")
    /\ ab.n["u1"] = 2
    /\ ab.n["u2"] = 1
    /\ ab.storage[storageKey("u2")] = Str("B")
    /\ ab.last.userId = "u2"

(***************************************************************************)
(* C12: for every integer currentPrice >= 0, calculateDownsellPrice gives  *)
(* currentPrice for variant 'A' and max(currentPrice - 1000, 0) for        *)
(* variant 'B'; the result is never negative and never above currentPrice  *)
(* (2500/A -> 2500, 2500/B -> 1500, 500/B -> 0).                           *)
(***************************************************************************)
ThmC12 ==
    price.computed =>
        /\ price.variant = "A" => price.result = price.currentPrice
        /\ price.variant = "B" =>
              price.result = IF price.currentPrice > 1000
                             THEN price.currentPrice - 1000 ELSE 0
        /\ price.result >= 0
        /\ price.result <= price.currentPrice
        /\ price.currentPrice = 2500 /\ price.variant = "A" => price.result = 2500
        /\ price.currentPrice = 2500 /\ price.variant = "B" => price.result = 1500
        /\ price.currentPrice = 500 /\ price.variant = "B" => price.result = 0

\* 500 cents under variant B are floored at 0
WitC12 ==
    price = [currentPrice |-> 500, variant |-> "B", computed |-> TRUE, result |-> 0]

(***************************************************************************)
(* C13: every response of a rate-limited route carries X-RateLimit-Limit,  *)
(* X-RateLimit-Remaining and X-RateLimit-Reset, and every 429 produced by  *)
(* a rejected limiter check also carries a Retry-After header equal to the *)
(* number of seconds until resetTime. Stated here for POST of the second   *)
(* version of the cancellation route.                                      *)
(***************************************************************************)
ClaimC13 ==
    (resp.route = "v2" /\ last.op = "check") =>
        /\ resp.response.headers.limit = rateLimiters.cancellation.maxRequests
        /\ resp.response.headers.remaining = last.remaining
        /\ resp.response.headers.reset = last.resetTime
        /\ resp.response.status = 429 =>
              resp.response.headers.retryAfter = ceilSeconds(last.resetTime - now)

(***************************************************************************)
(* C14: the global middleware attaches X-RateLimit-Limit,                  *)
(* X-RateLimit-Remaining and X-RateLimit-Reset to the response it returns  *)
(* whatever the later checks decide: also to the 403 of the user-agent     *)
(* heuristic, the 405 of the method allow-list and the 403 of the          *)
(* header-spoofing heuristic.                                              *)
(***************************************************************************)
ClaimC14 ==
    (gate.request # NoRequest /\ last.op = "check") =>
        /\ gate.response.headers.limit = rateLimiters.api.maxRequests
        /\ gate.response.headers.remaining = last.remaining
        /\ gate.response.headers.reset = last.resetTime

(***************************************************************************)
(* C15: the global middleware makes its checks in the order rate limit     *)
(* (429), user-agent heuristic (403), method allow-list (405),             *)
(* header-spoofing heuristic (403) and returns at the first that fails; a  *)
(* request failing none gets the pass-through response.                    *)
(***************************************************************************)
ThmC15 ==
    gate.request # NoRequest =>
        LET c == gateChecks[gate.request]
            r == gate.response
        IN  IF gate.nth > rateLimiters.api.maxRequests
            THEN r.status = 429 /\ r.error = "Too many requests"
            ELSE IF c.automated
            THEN r.status = 403 /\ r.message = "Automated access not allowed"
            ELSE IF c.badMethod
            THEN r.status = 405 /\ r.error = "Method not allowed"
            ELSE IF c.spoofed
            THEN r.status = 403 /\ r.message = "Invalid request headers"
            ELSE r.status = 200 /\ r.next /\ r.requestId

\* a bot user agent with an unsupported method and a loopback x-real-ip is
\* answered 403 by the user-agent heuristic
WitC15 ==
    /\ gate.request.method = "TRACE"
    /\ gate.request.userAgent = Str("curl/8.4")
    /\ gate.request.realIp = Str("127.0.0.1")
    /\ gate.nth <= rateLimiters.api.maxRequests
    /\ gate.response.status = 403
    /\ gate.response.message = "Automated access not allowed"

(***************************************************************************)
(* C16: rate-limit state is independent per configuration and per key: a   *)
(* check(k) on one of the four limiters never changes the result that a    *)
(* later check on another limiter, or on the same limiter for another key, *)
(* would return. The later check is probed right after the step, 1 ms      *)
(* later, and just before and at the end of a window from then and of the  *)
(* other key's stored window.                                              *)
(***************************************************************************)
ProbeTimes(l, k, t) ==
    {t, t + 1, t + rateLimiters[l].windowMs - 1, t + rateLimiters[l].windowMs}
    \cup { u \in {store[l][k].resetTime - 1, store[l][k].resetTime} : u >= t }

ResultAt(st, l, k, t) == checkBody(rateLimiters[l], cleanup(st[l], t), k, t).result

ThmC16 ==
    [][last'.op = "check" =>
          \A l \in LimiterNames, k \in ClientKeys :
              (l # last'.lim \/ k # last'.key) =>
                  \A t \in ProbeTimes(l, k, now') :
                      ResultAt(store', l, k, t) = ResultAt(store, l, k, t)
      ]_vars

\* auth has just served its second check of 10.0.0.1 while 10.0.0.2 and the
\* feedback limiter hold entries of their own
WitC16 ==
    /\ last.op = "check" /\ last.lim = "auth" /\ last.key = "10.0.0.1"
    /\ store.auth["10.0.0.1"].count = 2
    /\ store.auth["10.0.0.2"].count = 2
    /\ store.feedback["10.0.0.1"].count = 1
    /\ store.api["10.0.0.1"].count = 1

(***************************************************************************)
(* C17: in every reachable state a RateLimiter store holds at most one     *)
(* entry per key (store[l] is a function of the key) and every stored      *)
(* entry has 1 <= count <= maxRequests, after any sequence of check, reset *)
(* and getStatus calls and time advances.                                  *)
(***************************************************************************)
ThmC17 ==
    \A l \in LimiterNames :
        /\ DOMAIN store[l] = StoreKeys
        /\ \A k \in ClientKeys :
              store[l][k] # NoEntry =>
                  /\ 1 <= store[l][k].count
                  /\ store[l][k].count <= rateLimiters[l].maxRequests

\* getStatus finds the entry of a key at the limit, after calls that were denied
WitC17 ==
    /\ last.op = "getStatus"
    /\ last.found
    /\ calls[last.lim][last.key] > rateLimiters[last.lim].maxRequests
    /\ store[last.lim][last.key].count = rateLimiters[last.lim].maxRequests

ThmC19 ==
    (csrf.op = "middleware" /\ csrf.req.method # "GET") =>
        LET req == csrf.req
            candidates == << req.headerToken,
                             IF req.bodyKind = "form" THEN req.formToken ELSE Undefined,
                             req.queryToken >>
            nonEmpty == { i \in 1..3 : candidates[i] \notin {Undefined, Null, Str("")} }
            first == CHOOSE i \in nonEmpty : \A j \in nonEmpty : i <= j
        IN  IF nonEmpty = {} THEN csrf.provided = Null
            ELSE csrf.provided = Str(sanitizeText(candidates[first]))

\* an empty header, a form field and a query parameter: the form field is returned
WitC19 ==
    /\ csrf.op = "middleware"
    /\ csrf.req.method = "POST"
    /\ csrf.req.headerToken = Str("")
    /\ csrf.req.bodyKind = "form"
    /\ csrf.req.formToken = Str("tokB")
    /\ csrf.req.queryToken = Str("tokA")
    /\ csrf.provided = Str("tokB")

(***************************************************************************)
(* C20: for a GET request the CSRF middleware validates no token:          *)
(* whatever tokens the request carries, the handler is invoked exactly     *)
(* once and its response is returned with the csrf-token cookie set to a   *)
(* newly generated token; the token endpoint GET answers 200 with          *)
(* success true and a csrfToken equal to the value set in the cookie.      *)
(***************************************************************************)
ThmC20 ==
    /\ (csrf.op = "middleware" /\ csrf.req.method = "GET") =>
          /\ csrf.resp.handled = 1
          /\ csrf.resp.cookie \in GeneratedTokens
          /\ csrf.resp = [OkResponse EXCEPT !.handled = 1, !.cookie = csrf.resp.cookie]
    /\ csrf.op = "GET" =>
          /\ csrf.resp.status = 200
          /\ csrf.resp.success
          /\ csrf.resp.csrfToken \in GeneratedTokens
          /\ csrf.resp.cookie = csrf.resp.csrfToken

\* a GET whose header token differs from its cookie reaches the handler
WitC20 ==
    /\ csrf.op = "middleware"
    /\ csrf.req.method = "GET"
    /\ csrf.req.headerToken = Str("tokA")
    /\ csrf.req.cookie = Str("tokB")
    /\ csrf.resp.handled = 1
    /\ csrf.resp.cookie = "m0Lk9P"

(***************************************************************************)
(* C21: running cleanup() or not never changes what check returns: after   *)
(* any sequence of calls and time advances, a check on the limiter that    *)
(* never sweeps expired entries returns the same allowed, remaining and    *)
(* resetTime as the same check on the limiter that sweeps first.           *)
(***************************************************************************)
ThmC21 ==
    (unswept.tracked /\ last.op = "check") =>
        unswept.result = [allowed |-> last.allowed, remaining |-> last.remaining,
                          resetTime |-> last.resetTime]

\* a check that finds its key's entry expired, while the limiter that does
\* not sweep still holds an expired entry of the other key
WitC21 ==
    /\ unswept.tracked
    /\ last.op = "check"
    /\ last.prior # NoEntry
    /\ last.prior.resetTime <= last.at
    /\ \E k \in ClientKeys \ {last.key} :
          /\ store[last.lim][k] = NoEntry
          /\ unswept.store[last.lim][k] # NoEntry
          /\ unswept.store[last.lim][k].resetTime <= last.at

(***************************************************************************)
(* C22: reset(key) removes the entry of that key whether the key is        *)
(* absent, under the limit or blocked, and leaves the entries of all other *)
(* keys unchanged; the next check(key), whenever it is made, returns       *)
(* allowed = true, remaining = maxRequests - 1 and resetTime = its time    *)
(* plus windowMs.                                                          *)
(***************************************************************************)
ThmC22 ==
    [][/\ last'.op = "reset" =>
            /\ store'[last'.lim][last'.key] = NoEntry
            /\ \A l \in LimiterNames, k \in ClientKeys :
                  (l # last'.lim \/ k # last'.key) => store'[l][k] = store[l][k]
            /\ \A t \in ProbeTimes(last'.lim, last'.key, now') :
                  ResultAt(store', last'.lim, last'.key, t) =
                      [allowed |-> TRUE,
                       remaining |-> rateLimiters[last'.lim].maxRequests - 1,
                       resetTime |-> t + rateLimiters[last'.lim].windowMs]
       /\ (/\ last.op = "reset" /\ last'.op = "check"
           /\ last'.lim = last.lim /\ last'.key = last.key) =>
            /\ last'.allowed
            /\ last'.remaining = rateLimiters[last.lim].maxRequests - 1
            /\ last'.resetTime = last'.at + rateLimiters[last.lim].windowMs
            /\ last'.count = 1]_vars

\* the reset of a blocked key, while the other key stays blocked
WitC22 ==
    /\ last.op = "reset"
    /\ last.prior.count = rateLimiters[last.lim].maxRequests
    /\ last.prior.resetTime > now
    /\ store[last.lim][last.key] = NoEntry
    /\ \E k \in ClientKeys \ {last.key} :
          store[last.lim][k].count = rateLimiters[last.lim].maxRequests

(***************************************************************************)
(* C23: when every check(key) runs to completion as one step, the requests *)
(* of one key in one window get at most maxRequests allowed results in     *)
(* every interleaving; more than maxRequests are allowed only where the    *)
(* read of the count and the write of the incremented count are separate   *)
(* steps and another request's write fell between them.                    *)
(***************************************************************************)
ThmC23 ==
    race.allowed > rateLimiters.auth.maxRequests =>
        ~race.atomic /\ race.overlapped

\* two requests read the same count and both were allowed: one more than the limit
WitC23 ==
    /\ ~race.atomic
    /\ race.overlapped
    /\ race.allowed = rateLimiters.auth.maxRequests + 1
    /\ store.auth[RaceKey].count = rateLimiters.auth.maxRequests
    /\ \A p \in Requesters : race.pc[p] = "idle"

(***************************************************************************)
(* C24: when two first-time calls of getOrAssignVariant for one user have  *)
(* their storage reads before either storage write, both draw and return a *)
(* variant of their own and the last write wins: localStorage holds the    *)
(* variant written last. Once the calls have completed, every later call   *)
(* for that user returns that variant with isNewAssignment = false and     *)
(* writes nothing.                                                         *)
(***************************************************************************)
ThmC24 ==
    [][/\ ab'.written # "" => ab'.storage[storageKey("u1")] = Str(ab'.written)
       /\ (ab.written # "" /\ \A t \in Tabs : ab.tabs[t].pc = "idle") =>
             /\ ab'.storage = ab.storage
             /\ ab'.written = ab.written
             /\ \A t \in Tabs :
                   ab'.tabs[t] # ab.tabs[t] =>
                       ab'.tabs[t] = [pc |-> "idle", userId |-> "u1",
                                      result |-> ABTestResult(ab.written, FALSE)]]_vars

\* both tabs drew, A and B, and B was written last
WitC24 ==
    /\ ab.initial[storageKey("u1")] = Null
    /\ ab.n["u1"] = 2
    /\ ab.tabs["t1"] = [pc |-> "idle", userId |-> "u1", result |-> ABTestResult("A", TRUE)]
    /\ ab.tabs["t2"] = [pc |-> "idle", userId |-> "u1", result |-> ABTestResult("B", TRUE)]
    /\ ab.storage[storageKey("u1")] = Str("B")

(***************************************************************************)
(* C25: getOrAssignVariant never raises to its caller: every call returns  *)
(* a result with variant 'A' or 'B', and a call in which the storage read, *)
(* the random draw or the storage write throws returns variant 'A' with    *)
(* isNewAssignment = false and leaves localStorage as it was.              *)
(***************************************************************************)
ThmC25 ==
    [][\A u \in ABUsers :
          ab'.n[u] = ab.n[u] + 1 =>
              LET failure == ab'.last.failure
                  valid == ab.storage[storageKey(u)] \in {Str("A"), Str("B")}
                  thrown == \/ failure = "getItem"
                            \/ failure \in {"getRandomValues", "setItem"} /\ ~valid
              IN  /\ ab'.last.userId = u
                  /\ ab'.last.result.variant \in {"A", "B"}
                  /\ thrown => /\ ab'.last.result = ABTestResult("A", FALSE)
                               /\ ab'.storage = ab.storage]_vars

\* getRandomValues threw in a first call for a user with nothing stored
WitC25 ==
    /\ ab.last.failure = "getRandomValues"
    /\ ab.last.userId = "u1"
    /\ ab.n["u1"] = 1
    /\ ab.storage[storageKey("u1")] = Null
    /\ ab.last.result = ABTestResult("A", FALSE)

(***************************************************************************)
(* C26: whenever no secure randomness source is available, a call of       *)
(* getOrAssignVariant draws from the non-cryptographic source, writes      *)
(* nothing to localStorage and returns isNewAssignment = true, on every    *)
(* call; a variant is persisted only when drawn from the secure source.    *)
(***************************************************************************)
ClaimC26 ==
    (/\ ~ab.crypto
     /\ ab.last.userId # ""
     /\ ab.last.failure = "none"
     /\ ab.initial = [k \in StorageKeys |-> Null]) =>
        /\ ab.storage = ab.initial
        /\ ab.last.result.isNewAssignment

ClaimC28 ==
    san.done =>
        /\ san.output # TypeError
        /\ (/\ san.fn \in {"sanitizeAmount", "sanitizeUserId", "sanitizeFeedback",
                           "sanitizeReason"}
            /\ san.input.t # "string") => san.output = Null

(***************************************************************************)
(* C29: the result of sanitizeObject(raw, schema) has exactly the schema   *)
(* fields that raw holds with a value other than null and undefined: a     *)
(* schema field absent or null in raw is left out, a field of raw that the *)
(* schema does not declare is never copied, and each field of the result   *)
(* holds what the sanitize function of its declared kind returns.          *)
(***************************************************************************)
ThmC29 ==
    (san.done /\ san.fn = "sanitizeObject" /\ san.input \notin {Undefined, Null}) =>
        /\ DOMAIN san.output = DOMAIN cancellationSchema
        /\ \A key \in DOMAIN cancellationSchema :
              LET value == Get(san.input, key)
                  kind == cancellationSchema[key]
              IN  IF value \in {Undefined, Null}
                  THEN san.output[key] = Undefined
                  ELSE san.output[key] =
                         CASE kind = "userId"   -> sanitizeUserId(value)
                           [] kind = "text"     -> Str(sanitizeText(value))
                           [] kind = "reason"   -> sanitizeReason(value)
                           [] kind = "amount"   -> sanitizeAmount(value)
                           [] kind = "feedback" -> sanitizeFeedback(value, 25, 1000)

\* an object with a failing userId, a null variant, no amount and a field the
\* schema does not declare
WitC29 ==
    /\ san.done
    /\ san.fn = "sanitizeObject"
    /\ "admin" \in DOMAIN san.input
    /\ san.input.variant = Null
    /\ san.output.userId = Null
    /\ san.output.variant = Undefined
    /\ san.output.amount = Undefined
    /\ san.output.reason = Str("too-expensive")

(***************************************************************************)
(* C30: the string sanitizeText returns never holds 'javascript:',         *)
(* 'vbscript:', 'data:' or an 'on<word>=' fragment, in any letter case,    *)
(* for every input string, also where removing one occurrence joins the    *)
(* characters around it into another; sanitizeText applied to its own      *)
(* output returns it unchanged.                                            *)
(***************************************************************************)
ClaimC30 ==
    (san.done /\ san.fn = "sanitizeText" /\ san.input.t = "string") =>
        /\ ~includesCI(san.output.s, "javascript:")
        /\ ~includesCI(san.output.s, "vbscript:")
        /\ ~includesCI(san.output.s, "data:")
        /\ ~hasOnHandler(san.output.s)
        /\ sanitizeText(san.output) = san.output.s

(***************************************************************************)
(* C31: with the default bounds sanitizeFeedback returns null when the     *)
(* sanitized text has fewer than 25 or more than 1000 characters, and the  *)
(* sanitized text when its length is in 25..1000 and it holds none of      *)
(* '<script', 'javascript:', 'data:'; plain strings of 24 and 1001         *)
(* characters are rejected, of 25 and 1000 characters accepted.            *)
(***************************************************************************)
ThmC31 ==
    (san.done /\ san.fn = "sanitizeFeedback") =>
        LET text == sanitizeText(san.input) IN
        /\ (Len(text) < 25 \/ Len(text) > 1000) => san.output = Null
        /\ ( /\ Len(text) >= 25 /\ Len(text) <= 1000
             /\ ~includes(text, "<script")
             /\ ~includes(text, "javascript:")
             /\ ~includes(text, "data:") ) => san.output = Str(text)
        /\ \A n \in {24, 1001} : san.input = Str(repeat("a", n)) => san.output = Null
        /\ \A n \in {25, 1000} : san.input = Str(repeat("a", n)) => san.output = san.input

\* sanitizeFeedback has returned the plain string of 1000 characters
WitC31 ==
    /\ san.done /\ san.fn = "sanitizeFeedback"
    /\ san.input = Str(repeat("a", 1000))
    /\ san.output = san.input

(***************************************************************************)
(* C32: getClientIP returns the trimmed first comma-separated entry of     *)
(* X-Forwarded-For if that is not empty, else X-Real-IP if not empty, else *)
(* the peer address if there is one, else "unknown"; the result is never   *)
(* the empty string; and a request is counted in the entry of the general  *)
(* limiter stored under that string and in no other, so two requests share *)
(* an entry exactly when their derived strings are equal.                  *)
(***************************************************************************)
ThmC32 ==
    [][ \A request \in IdentityRequests : gate'.request = request =>
          LET key == last'.key
              entry == IF request.xff.t = "string"
                       THEN trim(firstEntry(request.xff.s)) ELSE ""
          IN  /\ key = IF entry # "" THEN entry
                       ELSE IF request.realIp.t = "string" /\ request.realIp.s # ""
                            THEN request.realIp.s
                       ELSE IF request.ip.t = "string" /\ request.ip.s # ""
                            THEN request.ip.s
                       ELSE "unknown"
              /\ key # ""
              /\ \A k \in StoreKeys :
                    store'.api[k].count =
                        store.api[k].count + (IF k = key THEN 1 ELSE 0) ]_vars

\* requests naming 10.0.0.2 in X-Forwarded-For, by the peer address behind an
\* X-Forwarded-For whose first entry is blank, and one naming nobody have been
\* counted: two in the entry of 10.0.0.2, one in that of "unknown"
WitC32 ==
    /\ gate.request \in IdentityRequests
    /\ gate.request.xff = Str(" ,10.0.0.1") /\ gate.request.realIp = Str("")
    /\ gate.request.ip = Str("10.0.0.2")
    /\ last.key = "10.0.0.2"
    /\ store.api["10.0.0.2"].count = 2
    /\ store.api["unknown"].count = 1
    /\ store.api["10.0.0.1"].count = 1

(***************************************************************************)
(* C33: validateFormToken returns true exactly when the csrf_token field   *)
(* of the form is a string of tokenLength alphanumeric characters,         *)
(* whatever csrf-token cookie the request carries; so the token of         *)
(* generateFormToken passes when submitted, and so does a well-formed      *)
(* string that was never issued.                                           *)
(***************************************************************************)
ThmC33 ==
    csrf.op = "validateFormToken" =>
        LET field == IF "csrf_token" \in DOMAIN csrf.req.formData
                     THEN csrf.req.formData.csrf_token ELSE Undefined
            wellFormed ==
                /\ field.t = "string"
                /\ Len(field.s) = 32
                /\ \A i \in 1..Len(field.s) :
                       Ch(field.s, i) \in CharsOf(UpperLetters) \cup CharsOf(LowerLetters)
                                              \cup CharsOf(Digits)
        IN  /\ csrf.result <=> wellFormed
            /\ (csrf.token # "" /\ field = Str(csrf.token)) => csrf.result
            /\ field = Str(repeat("Z9", 16)) => csrf.result

\* a form that was never rendered is submitted with a well-formed token of its
\* sender's making and with a cookie holding another token, and passes
WitC33 ==
    /\ csrf.op = "validateFormToken"
    /\ csrf.token = ""
    /\ csrf.req.formData = [csrf_token |-> Str(repeat("Z9", 16))]
    /\ csrf.storedToken = repeat("a", 32)
    /\ csrf.result

(***************************************************************************)
(* C34: every result check returns has 0 <= remaining <= maxRequests - 1;  *)
(* an allowed result has remaining = maxRequests minus the count stored    *)
(* after the call, a denied one remaining = 0; and the resetTime returned  *)
(* is the resetTime of the stored entry.                                   *)
(***************************************************************************)
ClaimC34 ==
    last.op = "check" =>
        LET m == rateLimiters[last.lim].maxRequests IN
        /\ last.remaining >= 0 /\ last.remaining <= m - 1
        /\ ~last.allowed => last.remaining = 0
        /\ last.key \in DOMAIN store[last.lim] =>
              /\ last.allowed => last.remaining = m - store[last.lim][last.key].count
              /\ last.resetTime = store[last.lim][last.key].resetTime

(***************************************************************************)
(* C35: the limiter is fixed-window. A step gives a key a resetTime only   *)
(* by a check of that key that finds no entry or an expired one, and then  *)
(* stores count 1 and resetTime = now + windowMs; a check inside the       *)
(* window, allowed or denied, leaves the resetTime as it is, and a denied  *)
(* one leaves the whole entry; and, no reset(key) being made, the allowed  *)
(* calls of the window [resetTime - windowMs, resetTime) are the stored    *)
(* count, at most maxRequests.                                             *)
(***************************************************************************)
ThmC35 ==
    [][ \A k \in ClientKeys :
          LET w == rateLimiters.auth.windowMs
              e == store.auth[k]
              f == store'.auth[k]
              mine == last'.op = "check" /\ last'.lim = "auth" /\ last'.key = k
          IN  /\ (f # NoEntry /\ f.resetTime # e.resetTime) =>
                    /\ mine
                    /\ e = NoEntry \/ e.resetTime <= last'.at
                    /\ f = [count |-> 1, resetTime |-> last'.at + w]
              /\ (mine /\ e # NoEntry /\ last'.at < e.resetTime) =>
                    f.resetTime = e.resetTime
              /\ (mine /\ ~last'.allowed) => f = e
              /\ (mine /\ last'.allowed) =>
                    /\ winStart'.auth[k] = f.resetTime - w
                    /\ f.count = calls'.auth[k]
                    /\ calls'.auth[k] <= rateLimiters.auth.maxRequests ]_vars

\* a second denied call of 10.0.0.1, made in the last millisecond of its
\* window, has left the entry with the resetTime of its creation
WitC35 ==
    /\ last.op = "check" /\ last.lim = "auth" /\ last.key = "10.0.0.1"
    /\ ~last.allowed
    /\ calls.auth["10.0.0.1"] = rateLimiters.auth.maxRequests + 2
    /\ last.at = last.resetTime - 1
    /\ store.auth["10.0.0.1"] =
           [count |-> rateLimiters.auth.maxRequests,
            resetTime |-> winStart.auth["10.0.0.1"] + rateLimiters.auth.windowMs]

ThmC38 ==
    resp.route # "" =>
        LET response == resp.response
            req == resp.req
        IN  /\ response.persisted \in {0, 1}
            /\ response.persisted = 1 =>
                  /\ resp.nth <= rateLimiters.cancellation.maxRequests
                  /\ req.bodyKind = "json"
                  /\ \A field \in {"userId", "variant", "reason"} :
                        sanitizedBody[req][field] \notin {Undefined, Null, Str("")}
                  /\ sanitizedBody[req].variant \in {Str("A"), Str("B")}
                  /\ ~maliciousFeedback[req]
            /\ response.status \in {400, 403, 429} => response.persisted = 0

\* the tenth request of a window passes every check of the first version and
\* is handed to handleCancellationCompletion once
WitC38 ==
    /\ resp.route = "v1"
    /\ resp.nth = rateLimiters.cancellation.maxRequests
    /\ resp.response.status = 200
    /\ resp.response.persisted = 1
    /\ sanitizedBody[resp.req].feedback = Str(PlainFeedback)

(***************************************************************************)
(* C39: validation neither consumes nor rotates a CSRF token.  A non-GET   *)
(* response of the middleware, passing or failing, sets no cookie, so the  *)
(* browser's cookie stays and a header token that passed passes again on   *)
(* every later non-GET request; a GET overwrites the cookie with the token *)
(* generated for it, after which a token got from an earlier GET that      *)
(* differs from it is answered 403.                                        *)
(***************************************************************************)
ThmC39 ==
    [][ /\ (csrf'.op = "middleware" /\ csrf'.req.method # "GET") =>
              /\ csrf'.req.cookie = session.cookie
              /\ csrf'.resp.cookie = ""
              /\ session'.cookie = session.cookie
              /\ csrf'.req.headerToken \in session.passed =>
                    /\ csrf'.resp.status = 200
                    /\ csrf'.resp.handled = 1
              /\ csrf'.resp.status = 200 =>
                    /\ csrf'.req.headerToken \in session'.passed
                    /\ csrf'.req.headerToken = session.cookie
              /\ (\E i \in 1..Len(session.held) :
                       /\ csrf'.req.headerToken = Str(session.held[i])
                       /\ session.cookie # Str(session.held[i])) =>
                    csrf'.resp.status = 403
        /\ (csrf'.op = "middleware" /\ csrf'.req.method = "GET") =>
              /\ csrf'.resp.cookie \in GeneratedTokens
              /\ session'.cookie = Str(csrf'.resp.cookie)
              /\ session'.cookie # session.cookie => session'.passed = {}
        /\ csrf'.op = "GET" =>
              /\ csrf'.resp.cookie \in GeneratedTokens
              /\ session'.cookie \in {session.cookie, Str(csrf'.resp.cookie)}
      ]_vars

\* a page sends the token of the first GET after the browser took the cookie
\* of the second, having passed with the second token twice
WitC39 ==
    /\ csrf.op = "middleware"
    /\ csrf.req.method = "DELETE"
    /\ Len(session.held) = 2
    /\ csrf.req.headerToken = Str(session.held[1])
    /\ session.cookie = Str(session.held[2])
    /\ session.passed = {Str(session.held[2])}
    /\ csrf.resp.status = 403
    /\ csrf.resp.cookie = ""

(***************************************************************************)
(* C40: when check or getStatus returns, the store of its limiter holds no *)
(* entry whose resetTime is at or before the time its cleanup() read (the  *)
(* clock at the start of the call).  So the entry check finds for its key  *)
(* after cleanup has resetTime <= the time check read only if the clock    *)
(* moved between the two reads, and check then replaces it by an entry     *)
(* with count 1 and a window that starts at check's read.                  *)
(***************************************************************************)
ThmC40 ==
    [][ last'.op \in {"check", "getStatus"} =>
            LET l == last'.lim
                k == last'.key
                seen == cleanup(store[l], now)[k]
            IN  /\ \A x \in DOMAIN store'[l] :
                      store'[l][x] # NoEntry => store'[l][x].resetTime > now
                /\ last'.op = "getStatus" => store'[l] = cleanup(store[l], now)
                /\ (last'.op = "check" /\ seen # NoEntry /\ seen.resetTime <= last'.at) =>
                      /\ last'.at > now
                      /\ seen.resetTime > now
                      /\ store'[l][k] = [count |-> 1,
                                         resetTime |-> last'.at + rateLimiters[l].windowMs]
                      /\ last'.allowed
                      /\ last'.remaining = rateLimiters[l].maxRequests - 1
      ]_vars

\* the only entry of the store ends its window 1 ms after cleanup() read the
\* clock and at the very time check reads it: check has replaced it
WitC40 ==
    /\ last.op = "check"
    /\ last.lim = "auth"
    /\ last.prior = [count |-> 1, resetTime |-> rateLimiters.auth.windowMs]
    /\ last.at = rateLimiters.auth.windowMs
    /\ advances = 2
    /\ \A x \in StoreKeys \ {last.key} : store.auth[x] = NoEntry
    /\ store.auth[last.key] = [count |-> 1, resetTime |-> 2 * rateLimiters.auth.windowMs]

====
